---- MODULE Spec2Model ----
(***************************************************************************)
(* WindowsAiMic real-time audio pipeline.                                  *)
(*                                                                         *)
(* The module holds several specifications over one set of variables:      *)
(*   SpecRing      LockFreeRingBuffer, one writer thread and one reader    *)
(*                 thread, every index load, element copy and index store  *)
(*                 a separate step (audio_buffer.cpp)                      *)
(*   SpecDenoiser  RNNoiseProcessor initialized, then process called with  *)
(*                 arbitrary block sizes (rnnoise_processor.cpp)           *)
(*   SpecEngine    the running engine with matched sample rates: capture   *)
(*                 callback, processing thread and the setters other       *)
(*                 threads call (engine.cpp)                               *)
(*   SpecLifecycle one thread calling Engine::start and Engine::stop in    *)
(*                 any order, with the processing thread (engine.cpp)      *)
(*   SpecShutdown  main() and the signal handler's thread, both calling    *)
(*                 Engine::stop, up to ~Engine (main.cpp, engine.cpp)      *)
(*   SpecConfig    PRESET messages of the pipe server's thread and the     *)
(*                 processing thread's DSP chain (engine.cpp)              *)
(*   SpecFlow      samples from the capture callback through both rings    *)
(*                 to the render adapter's ring (engine.cpp)               *)
(*   SpecRender    WasapiRender::write and the render thread's drain       *)
(*                 (wasapi_render.cpp)                                     *)
(*   SpecInit      Engine::initialize with every outcome of its steps      *)
(*                 (engine.cpp, wasapi_capture.cpp, wasapi_render.cpp)     *)
(*   SpecBackend   RNNoiseProcessor and OpenVINOProcessor, initialized or  *)
(*                 not, fed blocks (rnnoise_processor.cpp,                 *)
(*                 openvino_processor.cpp)                                 *)
(*   SpecLimiter   Limiter with its setters called before the first block  *)
(*                 (limiter.cpp)                                           *)
(*   SpecResampler Resampler initialized with a pair of rates, then fed    *)
(*                 blocks (resampler.cpp)                                  *)
(*   SpecExpander  Expander with Engine::setExpanderParams and process     *)
(*                 (expander.cpp)                                          *)
(*   SpecCompressor the compressor's static curve, computeGainDb, under    *)
(*                 Engine::setCompressorParams (compressor.cpp)            *)
(*   SpecAttenuation RNNoiseProcessor with setAttenuation called before    *)
(*                 the first block (rnnoise_processor.cpp)                 *)
(*   SpecBypass    the tray app's bypass toggle, the pipe and the pipe     *)
(*                 server's processMessage (tray_app.cpp, pipe_server.cpp) *)
(*   SpecWait      the capture callback's write and notify and the         *)
(*                 processing thread's timed wait (engine.cpp)             *)
(*   SpecPreset    Engine::setAIModel and PRESET messages, without the DSP *)
(*                 chain (engine.cpp, pipe_server.cpp)                     *)
(*   SpecUnits     setEnabled and process of the four DSP units            *)
(*                 (expander.cpp, equalizer.cpp, compressor.cpp,           *)
(*                 limiter.cpp)                                            *)
(*   SpecLimiterRace Limiter::process on the processing thread while a     *)
(*                 preset's setLimiterParams runs on the pipe server       *)
(*                 thread (limiter.cpp, engine.cpp)                        *)
(* Sample values are positive integers (the position of the sample in its  *)
(* stream), 0 is the float 0.0f of a zero-initialised buffer.              *)
(***************************************************************************)
EXTENDS Integers, Naturals, Sequences, FiniteSets, TLC

(* ---------------------------------------------------------------------- *)
(* Bounds of the model                                                     *)
(* ---------------------------------------------------------------------- *)

\* capacity of the LockFreeRingBuffer of SpecRing (buffer_ has one slot more)
RingCap == 3
\* largest count passed to one write or read call of SpecRing: one more than
\* the ring holds
MaxCount == 4
\* number of samples the writer of SpecRing offers in total
MaxSamples == 7

\* FRAME_SIZE of the denoiser and PROCESSING_BLOCK_SIZE of the engine, scaled
\* down from 480 samples; every size derived from it keeps the source's factor
FrameLen == 3
\* PROCESSING_BLOCK_SIZE of the engine, scaled down from 480 samples
BlockLen == 2
\* largest number of frames the capture adapter delivers in one callback
MaxCaptureFrames == 3
\* number of samples the capture adapter delivers in total
MaxCaptured == 5
\* number of setter calls other threads make while the engine runs
MaxSetterCalls == 2
\* largest number of whole blocks stored in the engine's input ring
MaxPending == 2
\* number of start() and stop() calls the controlling thread makes
MaxCalls == 4
\* number of PRESET messages the pipe server receives
MaxPresetCalls == 2
\* size of the render adapter's ring, scaled down from 96000 samples
RenderRingLen == 4
\* largest number of frames passed to one WasapiRender::write call
MaxWriteLen == 5
\* number of samples written to the render adapter directly, in total
MaxRenderFed == 8
\* largest number of frames the output device asks for in one period
MaxDrain == 2
\* number of frames the output device takes in total
MaxDrained == 6

\* largest frames argument of one OpenVINOProcessor::process call
MaxOvBlock == 4
\* number of samples handed to OpenVINOProcessor::process in total
MaxOvInput == 6

\* largest number of render endpoints the enumeration returns
MaxEndpoints == 2

\* samples of the limiter's stream in 5 ms (240 in the program)
LimRate == 1
\* largest frames argument of one Limiter::process call
MaxLimBlock == 2
\* number of samples handed to Limiter::process in total
MaxLimInput == 5

\* largest sample rate of the resampler's model (rates are 1..MaxRsRate)
MaxRsRate == 3
\* largest frames argument of one Resampler::process call
MaxRsBlock == 4
\* number of input frames handed to Resampler::process in total
MaxRsInput == 8

\* largest frames argument of one Expander::process call
MaxExBlock == 2
\* number of samples handed to Expander::process in total
MaxExInput == 4

\* commands in the pipe at one time
MaxPipeQueue == 3
\* commands written to the pipe in total
MaxPipeSent == 5

\* number of capture callbacks of SpecWait
MaxWaitCallbacks == 3

\* number of process calls of SpecUnits
MaxUnCalls == 2

\* number of Limiter::process calls of SpecLimiterRace
MaxLrBlocks == 2
\* number of setLimiterParams calls of SpecLimiterRace
MaxLrSets == 2

Min(a, b) == IF a <= b THEN a ELSE b

IsPrefix(s, t) == Len(s) <= Len(t) /\ SubSeq(t, 1, Len(s)) = s

(* ---------------------------------------------------------------------- *)
(* LockFreeRingBuffer  (src/engine/src/audio/audio_buffer.cpp)             *)
(* ---------------------------------------------------------------------- *)

VARIABLES
  buffer_,      \* std::vector<float> buffer_, indexed 0..capacity_
  writePos_,    \* std::atomic<size_t> writePos_
  readPos_,     \* std::atomic<size_t> readPos_
  wpc,          \* position of the writer thread inside write()
  wLoc,         \* locals of write(): data, count, currentWrite, currentRead, toWrite, i
  rpc,          \* position of the reader thread inside read()
  rLoc,         \* locals of read(): count, currentRead, currentWrite, toRead, i, data
  nextVal,      \* next sample value the producer will offer
  accepted,     \* history: samples accepted by write (first `written` of each call)
  consumed      \* history: samples returned by read

ringVars == <<buffer_, writePos_, readPos_, wpc, wLoc, rpc, rLoc, nextVal,
              accepted, consumed>>

VARIABLES
  rn_state_,        \* RNNoiseProcessor::state_ != nullptr
  rn_frameBuffer_,  \* RNNoiseProcessor::frameBuffer_, indexed 0..FRAME_SIZE-1
  rn_bufferPos_,    \* RNNoiseProcessor::bufferPos_
  rn_outputBuffer_, \* RNNoiseProcessor::outputBuffer_, indexed 0..4*FRAME_SIZE-1
  rn_outputPos_,    \* RNNoiseProcessor::outputPos_
  dpc,              \* position inside process(): "idle", "loop", "drain"
  dLoc,             \* process(): the caller's buffer, frames, inputPos
  dnFed,            \* number of samples handed to process() so far
  inferLog,         \* history: the frames handed to processFrame
  outHist           \* history: the buffers handed back to the caller, concatenated

denVars == <<rn_state_, rn_frameBuffer_, rn_bufferPos_, rn_outputBuffer_,
             rn_outputPos_, dpc, dLoc, dnFed, inferLog, outHist>>

VARIABLES
  inputBuffer_,      \* Engine::inputBuffer_: [buf, writePos, readPos]
  outputBuffer_,     \* Engine::outputBuffer_: [buf, writePos, readPos]
  processingBuffer_, \* Engine::processingBuffer_: PROCESSING_BLOCK_SIZE samples,
                     \* each [id, path]: the captured sample and the units that
                     \* have processed it, in order
  bypass_,           \* Engine::bypass_
  meterCallback_,    \* Engine::meterCallback_ holds a callable
  enabled_,          \* enabled_ of Expander, Equalizer, Compressor, Limiter
  aiModel,           \* configManager_.getConfig().aiModel
  cpc,               \* capture thread: position inside onAudioCaptured
  capLoc,            \* onAudioCaptured / inputBuffer_.write: data, currentWrite
  captured,          \* number of samples the capture adapter has delivered
  ppc,               \* processing thread: position inside processingThread
  pLoc,              \* inputBuffer_.read: currentRead, toRead
  blockIn,           \* the samples the last read() of the thread returned
  calls,             \* what has been invoked for the current block, in order
  bypassSeen,        \* value of bypass_.load() at line 440 for the current block
  cfgChanged,        \* a setter ran on another thread since the block was read
  renderArg,         \* the buffer of the last render_->write call
  setterCalls,       \* number of setter calls made so far
  blockOps           \* the locks taken and allocations made for the current block

engVars == <<inputBuffer_, outputBuffer_, processingBuffer_, bypass_,
             meterCallback_, enabled_, aiModel, cpc, capLoc, captured, ppc, pLoc,
             blockIn, calls, bypassSeen, cfgChanged, renderArg, setterCalls,
             blockOps>>

VARIABLES
  running_,       \* Engine::running_
  g_running,      \* main.cpp g_running
  g_engine,       \* main.cpp g_engine != nullptr
  lpc,            \* per calling thread: position inside main(), signalHandler,
                  \* Engine::start or Engine::stop
  mainPhase,      \* main(): 0 before start(), 1 until the first stop() has
                  \* returned, 2 in ~Engine
  ptpc,           \* position of the processing thread, "none" when no thread runs
  procThreads,    \* number of processing threads that exist and have not ended
  threadsCreated, \* number of std::thread objects start() has constructed
  ptJoinable,     \* processingThread_.joinable()
  capturing_,     \* WasapiCapture::capturing_ (capture thread delivering)
  rendering_,     \* WasapiRender::running_
  adapterStarts,  \* number of capture_->start() calls made by Engine::start
  pending,        \* whole blocks stored in inputBuffer_
  destroyed,      \* the Engine object has been destroyed
  aborted,        \* std::terminate or a crash has ended the process
  lcCalls,        \* number of start()/stop() calls the controller has made
  snap            \* state at the entry of the controller's current call

lifeVars == <<running_, g_running, g_engine, lpc, mainPhase, ptpc, procThreads,
              threadsCreated, ptJoinable, capturing_, rendering_, adapterStarts,
              pending, destroyed, aborted, lcCalls, snap>>

VARIABLES
  config_,      \* ConfigManager::config_
  unitParams,   \* the parameters each DSP unit holds
  apc,          \* position of the pipe server's thread inside a PRESET message
  apName,       \* presetName of the current or last applyPreset call
  apConfig,     \* the local config of applyPreset
  presetHist,   \* the names of the PRESET messages received
  chainPc,      \* position of the processing thread in the DSP chain of a block
  chainUsed,    \* the parameters each unit has used for the current block
  chainChanged, \* a unit's parameters changed while the block was in the chain
  snapshots     \* every Config that has been the stored config

cfgVars == <<config_, unitParams, apc, apName, apConfig, presetHist, chainPc,
             chainUsed, chainChanged, snapshots>>

VARIABLES
  inputRing,       \* Engine::inputBuffer_ as [buf, writePos, readPos]
  outputRing,      \* Engine::outputBuffer_ as [buf, writePos, readPos]
  renderRing,      \* WasapiRender::ringBuffer_, writePos_, readPos_
  offered,         \* number of samples the capture adapter has delivered
  lastCapture,     \* the samples of the last onAudioCaptured call and how many
                   \* of them inputBuffer_.write stored
  overflows,       \* number of callbacks that found too little free space
  silences,        \* number of render periods filled up with silence
  bufferUnderruns, \* Engine::Status::bufferUnderruns
  blocksOut,       \* number of blocks the processing thread has produced
  lastOutWrite,    \* return value of the last outputBuffer_.write
  renderFed,       \* number of samples handed to WasapiRender::write directly
  undrained,       \* the samples written to render and not drained or pushed
                   \* out by newer ones, oldest first
  drainedFrames,   \* number of frames the output device has taken
  drainedSamples   \* number of samples the render thread has taken from the ring

flowVars == <<inputRing, outputRing, renderRing, offered, lastCapture, overflows,
              silences, bufferUnderruns, blocksOut, lastOutWrite, renderFed,
              undrained, drainedFrames, drainedSamples>>

VARIABLES
  initPc,            \* position of the thread inside Engine::initialize
  initResult,        \* what Engine::initialize returned: "none" until it returns
  capture_,          \* Engine::capture_: the WasapiCapture adapter
  render_,           \* Engine::render_: the WasapiRender adapter
  inputResampler_,   \* Engine::inputResampler_ != nullptr
  outputResampler_,  \* Engine::outputResampler_ != nullptr
  dspCreated,        \* expander_, compressor_, limiter_, equalizer_, meters exist
  pipeServer_,       \* Engine::pipeServer_: "none", "created" or "running"
  discovery          \* initializeRender: the configured id, the endpoints
                     \* enumerated and the value of outputDevice at line 151

initVars == <<initPc, initResult, capture_, render_, inputResampler_,
              outputResampler_, dspCreated, pipeServer_, discovery>>

VARIABLES
  ov_initialized_,  \* OpenVINOProcessor::initialized_
  ov_available,     \* OpenVINOProcessor::Impl::available
  ov_frameBuffer_,  \* OpenVINOProcessor::frameBuffer_, indexed 0..FRAME_SIZE-1
  ov_bufferPos_,    \* OpenVINOProcessor::bufferPos_
  ovFed,            \* number of samples handed to OpenVINOProcessor::process
  ovOut,            \* the caller's buffer when the last process call returned
  ovWild            \* a process call has written outside the caller's buffer

ovVars == <<ov_initialized_, ov_available, ov_frameBuffer_, ov_bufferPos_, ovFed,
            ovOut, ovWild>>

VARIABLES
  lim_ceiling_,          \* Limiter::ceiling_, linear, in thousandths
  lim_releaseCoeff_,     \* Limiter::releaseCoeff_, in thousandths
  lim_lookaheadSamples_, \* Limiter::lookaheadSamples_
  lim_lookaheadBuffer_,  \* Limiter::lookaheadBuffer_, indexed 0..lookaheadSamples_
  lim_bufferPos_,        \* Limiter::bufferPos_
  lim_smoothedGain_,     \* Limiter::smoothedGain_, in thousandths
  limIn,                 \* the samples handed to Limiter::process so far
  limOut,                \* the samples Limiter::process put in their place
  limGains               \* smoothedGain_ when each of them was written

limVars == <<lim_ceiling_, lim_releaseCoeff_, lim_lookaheadSamples_,
             lim_lookaheadBuffer_, lim_bufferPos_, lim_smoothedGain_, limIn,
             limOut, limGains>>

VARIABLES
  rs_srcRate_,    \* Resampler::srcRate_
  rs_dstRate_,    \* Resampler::dstRate_
  rs_position_,   \* Resampler::position_, in units of 1/dstRate_ input frames
  rs_lastSample_, \* Resampler::lastSample_
  rsFed,          \* number of input frames handed to Resampler::process so far
  rsOut           \* the output frames returned so far, each times RsUnit

rsVars == <<rs_srcRate_, rs_dstRate_, rs_position_, rs_lastSample_, rsFed, rsOut>>

VARIABLES
  ex_threshold_,       \* Expander::threshold_, linear, in thousandths
  ex_ratio_,           \* Expander::ratio_, in tenths
  ex_attackCoeff_,     \* Expander::attackCoeff_, in thousandths
  ex_releaseCoeff_,    \* Expander::releaseCoeff_, in thousandths
  ex_hysteresis_,      \* Expander::hysteresis_, in thousandths
  ex_envelope_,        \* Expander::envelope_, in thousandths
  ex_gateOpen_,        \* Expander::gateOpen_
  ex_gainReductionDb_, \* Expander::gainReductionDb_, in tenths of a dB
  exGain,              \* the gain the last computeGain call returned
  exFed                \* number of samples handed to Expander::process so far

exVars == <<ex_threshold_, ex_ratio_, ex_attackCoeff_, ex_releaseCoeff_,
            ex_hysteresis_, ex_envelope_, ex_gateOpen_, ex_gainReductionDb_,
            exGain, exFed>>

VARIABLES
  cmp_thresholdDb_,  \* Compressor::thresholdDb_, in dB
  cmp_ratio_,        \* Compressor::ratio_, in halves
  cmp_kneeDb_,       \* Compressor::kneeDb_, in dB
  cmpEval            \* the last computeGainDb call: its input, the parameters
                     \* it read and the gain it returned

cmpVars == <<cmp_thresholdDb_, cmp_ratio_, cmp_kneeDb_, cmpEval>>

VARIABLES
  rn_attenuation_   \* RNNoiseProcessor::attenuation_, in thousandths

attVars == <<rn_attenuation_>>

VARIABLES
  tray_bypass_,   \* TrayApp::bypass_
  pipeMessages,   \* commands written to the pipe and not yet read by the server
  pipeSent,       \* number of commands written to the pipe so far
  trayToggles,    \* number of TrayApp::onBypass calls so far
  pipeResponse    \* the last response the server wrote to the pipe

trayVars == <<tray_bypass_, pipeMessages, pipeSent, trayToggles, pipeResponse>>

VARIABLES
  waitPc,        \* position of the processing thread in its loop (lines 389-420)
  waitWoken,     \* a notify_one has reached the thread while it was blocked
  waitStored,    \* inputBuffer_.availableRead()
  waitCapPc,     \* position of the capture callback (lines 363-367)
  waitCallbacks, \* number of capture callbacks so far
  waitBlocks     \* number of blocks the processing thread has read so far

wtVars == <<waitPc, waitWoken, waitStored, waitCapPc, waitCallbacks, waitBlocks>>

VARIABLES
  unEnabled,          \* enabled_ of each DSP unit
  cmp_envelope_,      \* Compressor::envelope_, in thousandths
  cmp_smoothedGain_,  \* Compressor::smoothedGain_, in thousandths
  eq_memory,          \* the Equalizer's filter memories and deEsserEnvelope_
  unBuffer,           \* the caller's buffer after the last process call
  unBefore,           \* the last process call: unit, its enabled_, the buffer
                      \* handed in and the unit's state at the call
  unCalls             \* number of process calls so far

unVars == <<unEnabled, cmp_envelope_, cmp_smoothedGain_, eq_memory, unBuffer,
            unBefore, unCalls>>

VARIABLES
  lrPc,        \* where Limiter::process is on the processing thread
  lrBlock,     \* the buffer it was called with
  lrI,         \* the loop index i, counted from 1
  lrDelayed,   \* delayedSample of the current iteration
  lrStartSize, \* lookaheadBuffer_.size() when the call began
  lrOut,       \* the samples written back so far in this call
  lrSetPc,     \* where setLimiterParams is on the pipe server thread
  lrBlocks,    \* number of process calls begun
  lrSets       \* number of setLimiterParams calls begun

lrVars == <<lrPc, lrBlock, lrI, lrDelayed, lrStartSize, lrOut, lrSetPc,
            lrBlocks, lrSets>>

vars == <<ringVars, denVars, engVars, lifeVars, cfgVars, flowVars,
          initVars, ovVars, limVars, rsVars, exVars, cmpVars, attVars,
          trayVars, wtVars, unVars, lrVars>>

nonRingVars ==
  <<denVars, engVars, lifeVars, cfgVars, flowVars, initVars, ovVars,
    limVars, rsVars, exVars, cmpVars, attVars, trayVars, wtVars, unVars,
    lrVars>>
nonDenVars ==
  <<ringVars, engVars, lifeVars, cfgVars, flowVars, initVars, ovVars,
    limVars, rsVars, exVars, cmpVars, attVars, trayVars, wtVars, unVars,
    lrVars>>
nonEngVars ==
  <<ringVars, denVars, lifeVars, cfgVars, flowVars, initVars, ovVars,
    limVars, rsVars, exVars, cmpVars, attVars, trayVars, wtVars, unVars,
    lrVars>>
nonLifeVars ==
  <<ringVars, denVars, engVars, cfgVars, flowVars, initVars, ovVars,
    limVars, rsVars, exVars, cmpVars, attVars, trayVars, wtVars, unVars,
    lrVars>>
nonCfgVars ==
  <<ringVars, denVars, engVars, lifeVars, flowVars, initVars, ovVars,
    limVars, rsVars, exVars, cmpVars, attVars, trayVars, wtVars, unVars,
    lrVars>>
nonFlowVars ==
  <<ringVars, denVars, engVars, lifeVars, cfgVars, initVars, ovVars,
    limVars, rsVars, exVars, cmpVars, attVars, trayVars, wtVars, unVars,
    lrVars>>
nonInitVars ==
  <<ringVars, denVars, engVars, lifeVars, cfgVars, flowVars, ovVars,
    limVars, rsVars, exVars, cmpVars, attVars, trayVars, wtVars, unVars,
    lrVars>>
nonOvVars ==
  <<ringVars, denVars, engVars, lifeVars, cfgVars, flowVars, initVars,
    limVars, rsVars, exVars, cmpVars, attVars, trayVars, wtVars, unVars,
    lrVars>>
nonLimVars ==
  <<ringVars, denVars, engVars, lifeVars, cfgVars, flowVars, initVars,
    ovVars, rsVars, exVars, cmpVars, attVars, trayVars, wtVars, unVars,
    lrVars>>
nonRsVars ==
  <<ringVars, denVars, engVars, lifeVars, cfgVars, flowVars, initVars,
    ovVars, limVars, exVars, cmpVars, attVars, trayVars, wtVars, unVars,
    lrVars>>
nonExVars ==
  <<ringVars, denVars, engVars, lifeVars, cfgVars, flowVars, initVars,
    ovVars, limVars, rsVars, cmpVars, attVars, trayVars, wtVars, unVars,
    lrVars>>
nonCmpVars ==
  <<ringVars, denVars, engVars, lifeVars, cfgVars, flowVars, initVars,
    ovVars, limVars, rsVars, exVars, attVars, trayVars, wtVars, unVars,
    lrVars>>
nonAttVars ==
  <<ringVars, denVars, engVars, lifeVars, cfgVars, flowVars, initVars,
    ovVars, limVars, rsVars, exVars, cmpVars, trayVars, wtVars, unVars,
    lrVars>>
nonTrayVars ==
  <<ringVars, denVars, engVars, lifeVars, cfgVars, flowVars, initVars,
    ovVars, limVars, rsVars, exVars, cmpVars, attVars, wtVars, unVars,
    lrVars>>
nonWtVars ==
  <<ringVars, denVars, engVars, lifeVars, cfgVars, flowVars, initVars,
    ovVars, limVars, rsVars, exVars, cmpVars, attVars, trayVars, unVars,
    lrVars>>
nonUnVars ==
  <<ringVars, denVars, engVars, lifeVars, cfgVars, flowVars, initVars,
    ovVars, limVars, rsVars, exVars, cmpVars, attVars, trayVars, wtVars,
    lrVars>>
nonLrVars ==
  <<ringVars, denVars, engVars, lifeVars, cfgVars, flowVars, initVars,
    ovVars, limVars, rsVars, exVars, cmpVars, attVars, trayVars, wtVars,
    unVars>>
\* everything but the denoiser and Engine::initialize, which creates it
nonDenInitVars ==
  <<ringVars, engVars, lifeVars, cfgVars, flowVars, ovVars, limVars,
    rsVars, exVars, cmpVars, attVars, trayVars, wtVars, unVars, lrVars>>

capacity_ == RingCap
bufferSize == capacity_ + 1

\* a writer that counts the spare slot as free when the positions have wrapped
WriteAvailableNoReserve(currentWrite, currentRead) ==
  IF currentWrite >= currentRead
    THEN capacity_ - (currentWrite - currentRead)
    ELSE currentRead - currentWrite

\* write(): lines 21-26, free space seen from the loaded positions
WriteAvailable(currentWrite, currentRead) ==
  IF currentWrite >= currentRead
    THEN capacity_ - (currentWrite - currentRead)
    ELSE currentRead - currentWrite - 1

\* a reader that counts one slot too many when the positions have not wrapped
ReadAvailableOffByOne(currentWrite, currentRead) ==
  IF currentWrite >= currentRead
    THEN Min(currentWrite - currentRead + 1, capacity_)
    ELSE bufferSize - currentRead + currentWrite

\* read(): lines 55-60, stored samples seen from the loaded positions
ReadAvailable(currentWrite, currentRead) ==
  IF currentWrite >= currentRead
    THEN currentWrite - currentRead
    ELSE bufferSize - currentRead + currentWrite

\* an availableRead that forgets the spare slot when the positions have wrapped
AvailableReadNoSpare(currentWrite, currentRead) ==
  IF currentWrite >= currentRead
    THEN currentWrite - currentRead
    ELSE capacity_ - currentRead + currentWrite

\* availableRead(), lines 84-93
AvailableRead(currentWrite, currentRead) ==
  IF currentWrite >= currentRead
    THEN currentWrite - currentRead
    ELSE bufferSize - currentRead + currentWrite

\* an availableWrite that counts the spare slot when the positions have wrapped
AvailableWriteWithSpare(currentWrite, currentRead) ==
  IF currentWrite >= currentRead
    THEN capacity_ - (currentWrite - currentRead)
    ELSE currentRead - currentWrite

\* availableWrite(), lines 95-104
AvailableWrite(currentWrite, currentRead) ==
  IF currentWrite >= currentRead
    THEN capacity_ - (currentWrite - currentRead)
    ELSE currentRead - currentWrite - 1

\* slot touched by the i-th (0-based) element of the two memcpy calls that
\* start at position pos and move n elements (lines 35-41 and 69-75)
CopySlot(pos, n, i) ==
  LET firstPart == Min(n, bufferSize - pos)
  IN  IF i < firstPart THEN pos + i ELSE i - firstPart

\* new position after moving n elements (lines 44 and 78)
Advance(pos, n) == (pos + n) % bufferSize

WIdle == [data |-> <<>>, count |-> 0, currentWrite |-> 0, currentRead |-> 0,
          toWrite |-> 0, i |-> 0]
RIdle == [data |-> <<>>, count |-> 0, currentRead |-> 0, currentWrite |-> 0,
          toRead |-> 0, i |-> 0]

InitRing ==
  /\ buffer_ = [s \in 0..capacity_ |-> 0]
  /\ writePos_ = 0
  /\ readPos_ = 0
  /\ wpc = "idle"
  /\ wLoc = WIdle
  /\ rpc = "idle"
  /\ rLoc = RIdle
  /\ nextVal = 1
  /\ accepted = <<>>
  /\ consumed = <<>>

\* write(data, count) is entered; line 17: currentWrite = writePos_.load(relaxed)
WriteLoadWrite ==
  /\ wpc = "idle"
  /\ \E n \in 1..MaxCount :
       /\ nextVal + n - 1 <= MaxSamples
       /\ wLoc' = [WIdle EXCEPT !.data = [k \in 1..n |-> nextVal + k - 1],
                                !.count = n,
                                !.currentWrite = writePos_]
       /\ nextVal' = nextVal + n
  /\ wpc' = "loadRead"
  /\ UNCHANGED <<buffer_, writePos_, readPos_, rpc, rLoc, accepted, consumed>>
  /\ UNCHANGED nonRingVars

\* line 18: currentRead = readPos_.load(acquire); lines 21-31
WriteLoadRead ==
  /\ wpc = "loadRead"
  /\ LET available == WriteAvailable(wLoc.currentWrite, readPos_)
         toWrite == Min(wLoc.count, available)
     IN  /\ wLoc' = IF toWrite = 0 THEN WIdle
                    ELSE [wLoc EXCEPT !.currentRead = readPos_, !.toWrite = toWrite]
         /\ wpc' = IF toWrite = 0 THEN "idle" ELSE "copy"
  /\ UNCHANGED <<buffer_, writePos_, readPos_, rpc, rLoc, nextVal, accepted, consumed>>
  /\ UNCHANGED nonRingVars

\* lines 35-41: one element of the memcpy into buffer_
WriteCopy ==
  /\ wpc = "copy"
  /\ wLoc.i < wLoc.toWrite
  /\ buffer_' = [buffer_ EXCEPT
                   ![CopySlot(wLoc.currentWrite, wLoc.toWrite, wLoc.i)] =
                      wLoc.data[wLoc.i + 1]]
  /\ wLoc' = [wLoc EXCEPT !.i = wLoc.i + 1]
  /\ UNCHANGED <<writePos_, readPos_, wpc, rpc, rLoc, nextVal, accepted, consumed>>
  /\ UNCHANGED nonRingVars

\* lines 44-47: writePos_.store(newWrite, release); return toWrite
WriteStore ==
  /\ wpc = "copy"
  /\ wLoc.i = wLoc.toWrite
  /\ writePos_' = Advance(wLoc.currentWrite, wLoc.toWrite)
  /\ accepted' = accepted \o SubSeq(wLoc.data, 1, wLoc.toWrite)
  /\ wpc' = "idle"
  /\ wLoc' = WIdle
  /\ UNCHANGED <<buffer_, readPos_, rpc, rLoc, nextVal, consumed>>
  /\ UNCHANGED nonRingVars

\* read(data, count) is entered; line 51: currentRead = readPos_.load(relaxed)
ReadLoadRead ==
  /\ rpc = "idle"
  /\ \E m \in 1..MaxCount :
       rLoc' = [RIdle EXCEPT !.count = m, !.currentRead = readPos_]
  /\ rpc' = "loadWrite"
  /\ UNCHANGED <<buffer_, writePos_, readPos_, wpc, wLoc, nextVal, accepted, consumed>>
  /\ UNCHANGED nonRingVars

\* line 52: currentWrite = writePos_.load(acquire); lines 55-65
ReadLoadWrite ==
  /\ rpc = "loadWrite"
  /\ LET available == ReadAvailable(writePos_, rLoc.currentRead)
         toRead == Min(rLoc.count, available)
     IN  /\ rLoc' = IF toRead = 0 THEN RIdle
                    ELSE [rLoc EXCEPT !.currentWrite = writePos_, !.toRead = toRead]
         /\ rpc' = IF toRead = 0 THEN "idle" ELSE "copy"
  /\ UNCHANGED <<buffer_, writePos_, readPos_, wpc, wLoc, nextVal, accepted, consumed>>
  /\ UNCHANGED nonRingVars

\* lines 69-75: one element of the memcpy out of buffer_
ReadCopy ==
  /\ rpc = "copy"
  /\ rLoc.i < rLoc.toRead
  /\ rLoc' = [rLoc EXCEPT
                !.data = Append(rLoc.data,
                            buffer_[CopySlot(rLoc.currentRead, rLoc.toRead, rLoc.i)]),
                !.i = rLoc.i + 1]
  /\ UNCHANGED <<buffer_, writePos_, readPos_, wpc, wLoc, rpc, nextVal, accepted, consumed>>
  /\ UNCHANGED nonRingVars

\* lines 78-81: readPos_.store(newRead, release); return toRead
ReadStore ==
  /\ rpc = "copy"
  /\ rLoc.i = rLoc.toRead
  /\ readPos_' = Advance(rLoc.currentRead, rLoc.toRead)
  /\ consumed' = consumed \o rLoc.data
  /\ rpc' = "idle"
  /\ rLoc' = RIdle
  /\ UNCHANGED <<buffer_, writePos_, wpc, wLoc, nextVal, accepted>>
  /\ UNCHANGED nonRingVars

(* ---------------------------------------------------------------------- *)
(* RNNoiseProcessor  (src/engine/src/ai/rnnoise_processor.cpp)             *)
(* ---------------------------------------------------------------------- *)

FRAME_SIZE == FrameLen
\* outputBuffer_(FRAME_SIZE * 4, 0.0f), line 19
rnOutputSize == FRAME_SIZE * 4
\* largest block handed to one process() call: one more than outputBuffer_ holds
MaxBlock == rnOutputSize + 1
\* number of samples handed to process() in total
MaxInput == rnOutputSize + 2

\* width of size_t in bits; startPos is computed in size_t
SizeTBits == 64

RECURSIVE Pow2Mod(_, _)
Pow2Mod(e, m) == IF e = 0 THEN 1 % m ELSE (2 * Pow2Mod(e - 1, m)) % m

\* (a - b) evaluated in size_t and then reduced modulo m
SizeTSubMod(a, b, m) ==
  IF a >= b THEN (a - b) % m
  ELSE (Pow2Mod(SizeTBits, m) + m - ((b - a) % m)) % m

\* rnnoise_process_frame followed by lines 128-140: the frame is replaced by
\* the processed samples (line 139 overwrites the blend of line 135); the
\* inference maps sample x to a value different from every input
Processed(x) == -x

\* frame[i] as processFrame leaves it, lines 128-138: the blend of line 134
\* is overwritten by the assignment of line 138
FrameSample(processed, original, attenuation) == processed

\* line 77-78
SamplesToBuffer(frames, inputPos, bufferPos) ==
  Min(frames - inputPos, FRAME_SIZE - bufferPos)

\* a frame test that fires one sample early
FrameCompleteEarly(bufferPos) == bufferPos >= FRAME_SIZE - 1

\* line 86
FrameComplete(bufferPos) == bufferPos = FRAME_SIZE

\* lines 90-99: the frame is copied into outputBuffer_ at outputPos_, split in
\* two when fewer than FRAME_SIZE slots are left before the end
CopyFrameToOutput(outBuf, outputPos, frame) ==
  LET outputSpace == rnOutputSize - outputPos
  IN  [s \in 0..(rnOutputSize - 1) |->
         IF outputSpace >= FRAME_SIZE
           THEN IF s >= outputPos /\ s < outputPos + FRAME_SIZE
                  THEN frame[s - outputPos] ELSE outBuf[s]
           ELSE IF s >= outputPos THEN frame[s - outputPos]
                ELSE IF s < FRAME_SIZE - outputSpace THEN frame[outputSpace + s]
                ELSE outBuf[s]]

\* lines 108-109
StartPos(outputPos, frames) ==
  SizeTSubMod(outputPos + rnOutputSize, frames, rnOutputSize)

\* lines 110-112
DrainOutput(outBuf, outputPos, frames) ==
  LET startPos == StartPos(outputPos, frames)
  IN  [i \in 1..frames |-> outBuf[(startPos + (i - 1)) % rnOutputSize]]

DIdle == [buffer |-> <<>>, frames |-> 0, inputPos |-> 0]

\* constructor (lines 17-20) followed by a successful initialize() (lines 29-46)
InitDen ==
  /\ rn_state_ = FALSE
  /\ rn_frameBuffer_ = [j \in 0..(FRAME_SIZE - 1) |-> 0]
  /\ rn_bufferPos_ = 0
  /\ rn_outputBuffer_ = [s \in 0..(rnOutputSize - 1) |-> 0]
  /\ rn_outputPos_ = 0
  /\ dpc = "idle"
  /\ dLoc = DIdle
  /\ dnFed = 0
  /\ inferLog = <<>>
  /\ outHist = <<>>

\* lines 68-70: process returns before it touches anything
RnReturnsAtOnceNever(state) == FALSE

RnReturnsAtOnce(state) == ~state

\* initialize(), lines 29-46: rnnoise_create may return null
RnInitialize ==
  /\ dpc = "idle"
  /\ \E ok \in BOOLEAN :
       /\ rn_state_' = ok
       /\ rn_bufferPos_' = IF ok THEN 0 ELSE rn_bufferPos_
       /\ rn_outputPos_' = IF ok THEN 0 ELSE rn_outputPos_
  /\ UNCHANGED <<rn_frameBuffer_, rn_outputBuffer_, dpc, dLoc, dnFed, inferLog,
                 outHist>>
  /\ UNCHANGED nonDenVars

\* process(buffer, frames) is entered with the next frames samples of the
\* stream; lines 68-73
ProcessEnter ==
  /\ dpc = "idle"
  /\ \E n \in 1..MaxBlock :
       /\ dnFed + n <= MaxInput
       /\ dnFed' = dnFed + n
       /\ LET buffer == [k \in 1..n |-> dnFed + k]
          IN  IF RnReturnsAtOnce(rn_state_)
                THEN /\ outHist' = outHist \o buffer
                     /\ UNCHANGED <<dpc, dLoc>>
                ELSE /\ dLoc' = [buffer |-> buffer, frames |-> n, inputPos |-> 0]
                     /\ dpc' = "loop"
                     /\ UNCHANGED outHist
  /\ UNCHANGED <<rn_state_, rn_frameBuffer_, rn_bufferPos_, rn_outputBuffer_,
                 rn_outputPos_, inferLog>>
  /\ UNCHANGED nonDenVars

\* one iteration of the while loop, lines 75-104
ProcessLoop ==
  /\ dpc = "loop"
  /\ dLoc.inputPos < dLoc.frames
  /\ LET samplesToBuffer ==
           SamplesToBuffer(dLoc.frames, dLoc.inputPos, rn_bufferPos_)
         filled == [j \in 0..(FRAME_SIZE - 1) |->
                      IF j >= rn_bufferPos_ /\ j < rn_bufferPos_ + samplesToBuffer
                        THEN dLoc.buffer[dLoc.inputPos + (j - rn_bufferPos_) + 1]
                        ELSE rn_frameBuffer_[j]]
         bufferPos == rn_bufferPos_ + samplesToBuffer
         processedFrame == [j \in 0..(FRAME_SIZE - 1) |->
                              FrameSample(Processed(filled[j]), filled[j],
                                          rn_attenuation_)]
     IN  /\ dLoc' = [dLoc EXCEPT !.inputPos = dLoc.inputPos + samplesToBuffer]
         /\ IF FrameComplete(bufferPos)
              THEN /\ inferLog' = Append(inferLog,
                                         [j \in 1..FRAME_SIZE |-> filled[j - 1]])
                   /\ rn_frameBuffer_' = processedFrame
                   /\ rn_outputBuffer_' =
                        CopyFrameToOutput(rn_outputBuffer_, rn_outputPos_,
                                          processedFrame)
                   /\ rn_outputPos_' = (rn_outputPos_ + FRAME_SIZE) % rnOutputSize
                   /\ rn_bufferPos_' = 0
              ELSE /\ rn_frameBuffer_' = filled
                   /\ rn_bufferPos_' = bufferPos
                   /\ UNCHANGED <<inferLog, rn_outputBuffer_, rn_outputPos_>>
  /\ UNCHANGED <<rn_state_, dpc, dnFed, outHist>>
  /\ UNCHANGED nonDenVars

\* the loop has ended; lines 108-113: the last frames samples of outputBuffer_
\* before outputPos_ are copied back into the caller's buffer
ProcessReturn ==
  /\ dpc = "loop"
  /\ dLoc.inputPos = dLoc.frames
  /\ outHist' = outHist \o DrainOutput(rn_outputBuffer_, rn_outputPos_, dLoc.frames)
  /\ dpc' = "idle"
  /\ dLoc' = DIdle
  /\ UNCHANGED <<rn_state_, rn_frameBuffer_, rn_bufferPos_, rn_outputBuffer_,
                 rn_outputPos_, dnFed, inferLog>>
  /\ UNCHANGED nonDenVars

(* ---------------------------------------------------------------------- *)
(* Engine: capture callback, processing thread, setters                    *)
(* (src/engine/src/engine.cpp, src/engine/src/engine.h)                    *)
(* ---------------------------------------------------------------------- *)

PROCESSING_BLOCK_SIZE == BlockLen
\* BUFFER_SIZE = PROCESSING_BLOCK_SIZE * 16
BufferBlocks == 16
BUFFER_SIZE == PROCESSING_BLOCK_SIZE * BufferBlocks

Units == {"expander", "equalizer", "compressor", "limiter"}

\* LockFreeRingBuffer(BUFFER_SIZE): buffer_ of BUFFER_SIZE + 1 slots
EmptyRing ==
  [buf |-> [s \in 0..BUFFER_SIZE |-> 0], writePos |-> 0, readPos |-> 0]

\* audio_buffer.cpp lines 21-26 and 55-60 for a ring of capacity BUFFER_SIZE
EngWriteAvailable(currentWrite, currentRead) ==
  IF currentWrite >= currentRead
    THEN BUFFER_SIZE - (currentWrite - currentRead)
    ELSE currentRead - currentWrite - 1

EngReadAvailable(currentWrite, currentRead) ==
  IF currentWrite >= currentRead
    THEN currentWrite - currentRead
    ELSE (BUFFER_SIZE + 1) - currentRead + currentWrite

\* audio_buffer.cpp lines 34-45: data[1..n] copied in at pos, wrapping
EngCopyIn(buf, pos, data, n) ==
  [s \in 0..BUFFER_SIZE |->
     LET k == (s + (BUFFER_SIZE + 1) - pos) % (BUFFER_SIZE + 1)
     IN  IF k < n THEN data[k + 1] ELSE buf[s]]

\* audio_buffer.cpp lines 68-75: n samples copied out from pos, wrapping
EngCopyOut(buf, pos, n) ==
  [k \in 1..n |-> buf[(pos + k - 1) % (BUFFER_SIZE + 1)]]

\* LockFreeRingBuffer::write as one step, for the ring only one thread uses
EngRingWrite(ring, data) ==
  LET toWrite == Min(Len(data), EngWriteAvailable(ring.writePos, ring.readPos))
  IN  [ring EXCEPT !.buf = EngCopyIn(ring.buf, ring.writePos, data, toWrite),
                   !.writePos = (ring.writePos + toWrite) % (BUFFER_SIZE + 1)]

\* an inner loop that starts a block as soon as any sample is stored
BlockAvailableAny(available) == available >= 1

\* line 404: inputBuffer_.availableRead() >= PROCESSING_BLOCK_SIZE
BlockAvailable(available) == available >= PROCESSING_BLOCK_SIZE

\* a block that ignores bypass_
AfterBypassCheckIgnored(bypass) == "rnnoise"

\* lines 440-446: with bypass only the output metering is left to do
AfterBypassCheck(bypass) == IF bypass THEN "outputMeteringBypass" ELSE "rnnoise"

\* a chain that runs the compressor before the equalizer
UnitAfterSwapped(stage) ==
  CASE stage = "rnnoise" -> "expander"
    [] stage = "expander" -> "compressor"
    [] stage = "compressor" -> "equalizer"
    [] stage = "equalizer" -> "limiter"
    [] stage = "limiter" -> "outputMetering"

\* lines 448-485: the order of the stages of processAudioBlock
UnitAfter(stage) ==
  CASE stage = "rnnoise" -> "expander"
    [] stage = "expander" -> "equalizer"
    [] stage = "equalizer" -> "compressor"
    [] stage = "compressor" -> "limiter"
    [] stage = "limiter" -> "outputMetering"

\* process(buffer, frames) of a unit: every sample of the block is replaced by
\* the unit's output for it
UnitProcess(buffer, unit) ==
  [k \in 1..Len(buffer) |-> [buffer[k] EXCEPT !.path = Append(@, unit)]]

\* render_->isReady() (wasapi_render.h line 56) after a successful initialize()
RenderReady == TRUE

\* What the processing thread does, besides arithmetic on the block, in the
\* steps of a block.

\* engine.cpp line 449: getConfig() locks the ConfigManager's mutex and
\* returns a copy of the Config with its strings (config_manager.cpp lines
\* 180-183); rnnoise_processor.cpp line 118: processFrame constructs a
\* std::vector for every frame
DenoiseOps(runs) ==
  {"lock ConfigManager::mutex_", "copy Config"}
    \cup (IF runs THEN {"allocate std::vector"} ELSE {})

\* engine.cpp lines 489 and 500
MeterOps == {"lock meterMutex_", "lock statusMutex_"}

\* wasapi_render.cpp line 226, reached from engine.cpp line 424
RenderOps(ready) == IF ready THEN {"lock WasapiRender::bufferMutex_"} ELSE {}

InBlock == ppc \notin {"wait", "loopCheck", "read", "readCopy"}

CapIdle == [data |-> <<>>, currentWrite |-> 0, toWrite |-> 0]
PIdle == [currentRead |-> 0, toRead |-> 0]

\* Engine::Engine (lines 30-32), initializeProcessors with the default
\* configuration (all units enabled, aiModel "rnnoise"), start()
InitEng ==
  /\ inputBuffer_ = EmptyRing
  /\ outputBuffer_ = EmptyRing
  /\ processingBuffer_ = [k \in 1..PROCESSING_BLOCK_SIZE |-> [id |-> 0, path |-> <<>>]]
  /\ bypass_ = FALSE
  /\ meterCallback_ = FALSE
  /\ enabled_ = [u \in Units |-> TRUE]
  /\ aiModel = "rnnoise"
  /\ cpc = "idle"
  /\ capLoc = CapIdle
  /\ captured = 0
  /\ ppc = "wait"
  /\ pLoc = PIdle
  /\ blockIn = <<>>
  /\ calls = <<>>
  /\ bypassSeen = FALSE
  /\ cfgChanged = FALSE
  /\ renderArg = <<>>
  /\ setterCalls = 0
  /\ blockOps = {}

\* ---- capture thread: onAudioCaptured, lines 340-368, mono input at 48 kHz

\* lines 343-364 up to the loads of inputBuffer_.write (audio_buffer.cpp
\* lines 17-31): the free space is fixed here
CaptureLoad ==
  /\ cpc = "idle"
  /\ \E frames \in 1..MaxCaptureFrames :
       /\ captured + frames <= MaxCaptured
       /\ captured' = captured + frames
       /\ LET monoBuffer == [k \in 1..frames |-> [id |-> captured + k, path |-> <<>>]]
              toWrite == Min(frames, EngWriteAvailable(inputBuffer_.writePos,
                                                       inputBuffer_.readPos))
          IN  capLoc' = [data |-> monoBuffer,
                         currentWrite |-> inputBuffer_.writePos,
                         toWrite |-> toWrite]
  /\ cpc' = "store"
  /\ UNCHANGED <<inputBuffer_, outputBuffer_, processingBuffer_, bypass_,
                 meterCallback_, enabled_, aiModel, ppc, pLoc, blockIn, calls,
                 bypassSeen, cfgChanged, renderArg>>
  /\ UNCHANGED setterCalls
  /\ UNCHANGED blockOps
  /\ UNCHANGED nonEngVars

\* audio_buffer.cpp lines 34-47: the copy and the release store of writePos_;
\* engine.cpp line 367: notify_one
CaptureStore ==
  /\ cpc = "store"
  /\ inputBuffer_' =
       [inputBuffer_ EXCEPT
          !.buf = EngCopyIn(@, capLoc.currentWrite, capLoc.data, capLoc.toWrite),
          !.writePos = (capLoc.currentWrite + capLoc.toWrite) % (BUFFER_SIZE + 1)]
  /\ cpc' = "idle"
  /\ capLoc' = CapIdle
  /\ UNCHANGED <<outputBuffer_, processingBuffer_, bypass_, meterCallback_,
                 enabled_, aiModel, captured, ppc, pLoc, blockIn, calls,
                 bypassSeen, cfgChanged, renderArg>>
  /\ UNCHANGED setterCalls
  /\ UNCHANGED blockOps
  /\ UNCHANGED nonEngVars

\* ---- setters called from other threads

\* setBypass, line 580
SetBypass ==
  /\ bypass_' = ~bypass_
  /\ cfgChanged' = InBlock
  /\ setterCalls < MaxSetterCalls
  /\ setterCalls' = setterCalls + 1
  /\ UNCHANGED <<inputBuffer_, outputBuffer_, processingBuffer_, meterCallback_,
                 enabled_, aiModel, cpc, capLoc, captured, ppc, pLoc, blockIn,
                 calls, bypassSeen, renderArg>>
  /\ UNCHANGED blockOps
  /\ UNCHANGED nonEngVars

\* setMeterCallback, lines 625-628: a callable or an empty std::function.
\* The processing thread holds meterMutex_ only inside its "meterCallback" step.
SetMeterCallback ==
  /\ meterCallback_' = ~meterCallback_
  /\ cfgChanged' = InBlock
  /\ setterCalls < MaxSetterCalls
  /\ setterCalls' = setterCalls + 1
  /\ UNCHANGED <<inputBuffer_, outputBuffer_, processingBuffer_, bypass_,
                 enabled_, aiModel, cpc, capLoc, captured, ppc, pLoc, blockIn,
                 calls, bypassSeen, renderArg>>
  /\ UNCHANGED blockOps
  /\ UNCHANGED nonEngVars

\* one setEnabled call of set*Params, lines 584, 595, 607, 616
SetEnabled ==
  /\ \E u \in Units : enabled_' = [enabled_ EXCEPT ![u] = ~@]
  /\ cfgChanged' = InBlock
  /\ setterCalls < MaxSetterCalls
  /\ setterCalls' = setterCalls + 1
  /\ UNCHANGED <<inputBuffer_, outputBuffer_, processingBuffer_, bypass_,
                 meterCallback_, aiModel, cpc, capLoc, captured, ppc, pLoc,
                 blockIn, calls, bypassSeen, renderArg>>
  /\ UNCHANGED blockOps
  /\ UNCHANGED nonEngVars

\* setAIModel, lines 532-536
SetAIModel ==
  /\ aiModel' = IF aiModel = "rnnoise" THEN "deepfilter" ELSE "rnnoise"
  /\ cfgChanged' = InBlock
  /\ setterCalls < MaxSetterCalls
  /\ setterCalls' = setterCalls + 1
  /\ UNCHANGED <<inputBuffer_, outputBuffer_, processingBuffer_, bypass_,
                 meterCallback_, enabled_, cpc, capLoc, captured, ppc, pLoc,
                 blockIn, calls, bypassSeen, renderArg>>
  /\ UNCHANGED blockOps
  /\ UNCHANGED nonEngVars

\* ---- processing thread: processingThread, lines 389-428 (running_ is true)

\* lines 391-401: wait_for returns, by notification or after at most 10 ms
ProcWait ==
  /\ ppc = "wait"
  /\ ppc' = "loopCheck"
  /\ UNCHANGED <<inputBuffer_, outputBuffer_, processingBuffer_, bypass_,
                 meterCallback_, enabled_, aiModel, cpc, capLoc, captured, pLoc,
                 blockIn, calls, bypassSeen, cfgChanged, renderArg>>
  /\ UNCHANGED setterCalls
  /\ UNCHANGED blockOps
  /\ UNCHANGED nonEngVars

\* line 404: the condition of the inner while loop
ProcLoopCheck ==
  /\ ppc = "loopCheck"
  /\ ppc' = IF BlockAvailable(EngReadAvailable(inputBuffer_.writePos,
                                               inputBuffer_.readPos))
              THEN "read" ELSE "wait"
  /\ UNCHANGED <<inputBuffer_, outputBuffer_, processingBuffer_, bypass_,
                 meterCallback_, enabled_, aiModel, cpc, capLoc, captured, pLoc,
                 blockIn, calls, bypassSeen, cfgChanged, renderArg>>
  /\ UNCHANGED setterCalls
  /\ UNCHANGED blockOps
  /\ UNCHANGED nonEngVars

\* line 406, audio_buffer.cpp lines 51-65: the loads of read(), toRead is fixed
ProcReadLoad ==
  /\ ppc = "read"
  /\ pLoc' = [currentRead |-> inputBuffer_.readPos,
              toRead |-> Min(PROCESSING_BLOCK_SIZE,
                             EngReadAvailable(inputBuffer_.writePos,
                                              inputBuffer_.readPos))]
  /\ ppc' = "readCopy"
  /\ UNCHANGED <<inputBuffer_, outputBuffer_, processingBuffer_, bypass_,
                 meterCallback_, enabled_, aiModel, cpc, capLoc, captured,
                 blockIn, calls, bypassSeen, cfgChanged, renderArg>>
  /\ UNCHANGED setterCalls
  /\ UNCHANGED blockOps
  /\ UNCHANGED nonEngVars

\* audio_buffer.cpp lines 68-81: the copy into processingBuffer_ and the
\* release store of readPos_; a short read leaves the rest of the buffer as it was
ProcReadCopy ==
  /\ ppc = "readCopy"
  /\ LET got == EngCopyOut(inputBuffer_.buf, pLoc.currentRead, pLoc.toRead)
     IN  /\ processingBuffer_' =
               [k \in 1..PROCESSING_BLOCK_SIZE |->
                  IF k <= pLoc.toRead THEN got[k] ELSE processingBuffer_[k]]
         /\ blockIn' = got
  /\ inputBuffer_' =
       [inputBuffer_ EXCEPT
          !.readPos = (pLoc.currentRead + pLoc.toRead) % (BUFFER_SIZE + 1)]
  /\ calls' = <<>>
  /\ cfgChanged' = FALSE
  /\ bypassSeen' = FALSE
  /\ ppc' = "inputMetering"
  /\ UNCHANGED <<outputBuffer_, bypass_, meterCallback_, enabled_, aiModel, cpc,
                 capLoc, captured, pLoc, renderArg>>
  /\ UNCHANGED setterCalls
  /\ blockOps' = {}
  /\ UNCHANGED nonEngVars

\* processAudioBlock lines 435-437: inputMetering_->process reads the block
ProcInputMetering ==
  /\ ppc = "inputMetering"
  /\ calls' = Append(calls, "inputMetering")
  /\ ppc' = "bypassCheck"
  /\ UNCHANGED <<inputBuffer_, outputBuffer_, processingBuffer_, bypass_,
                 meterCallback_, enabled_, aiModel, cpc, capLoc, captured, pLoc,
                 blockIn, bypassSeen, cfgChanged, renderArg>>
  /\ UNCHANGED setterCalls
  /\ UNCHANGED blockOps
  /\ UNCHANGED nonEngVars

\* line 440: bypass_.load()
ProcBypassCheck ==
  /\ ppc = "bypassCheck"
  /\ bypassSeen' = bypass_
  /\ ppc' = AfterBypassCheck(bypass_)
  /\ UNCHANGED <<inputBuffer_, outputBuffer_, processingBuffer_, bypass_,
                 meterCallback_, enabled_, aiModel, cpc, capLoc, captured, pLoc,
                 blockIn, calls, cfgChanged, renderArg>>
  /\ UNCHANGED setterCalls
  /\ UNCHANGED blockOps
  /\ UNCHANGED nonEngVars

\* lines 442-445: output metering of the unprocessed block, then return
ProcBypassReturn ==
  /\ ppc = "outputMeteringBypass"
  /\ calls' = Append(calls, "outputMetering")
  /\ ppc' = "outputWrite"
  /\ UNCHANGED <<inputBuffer_, outputBuffer_, processingBuffer_, bypass_,
                 meterCallback_, enabled_, aiModel, cpc, capLoc, captured, pLoc,
                 blockIn, bypassSeen, cfgChanged, renderArg>>
  /\ UNCHANGED setterCalls
  /\ UNCHANGED blockOps
  /\ UNCHANGED nonEngVars

\* lines 449-453: rnnoise_->process when the configured model is "rnnoise"
\* (DeepFilterNet is compiled in only with USE_DEEPFILTER)
ProcDenoise ==
  /\ ppc = "rnnoise"
  /\ IF aiModel = "rnnoise"
       THEN /\ processingBuffer_' = UnitProcess(processingBuffer_, "rnnoise")
            /\ calls' = Append(calls, "rnnoise")
       ELSE UNCHANGED <<processingBuffer_, calls>>
  /\ ppc' = UnitAfter("rnnoise")
  /\ UNCHANGED <<inputBuffer_, outputBuffer_, bypass_, meterCallback_, enabled_,
                 aiModel, cpc, capLoc, captured, pLoc, blockIn, bypassSeen,
                 cfgChanged, renderArg>>
  /\ UNCHANGED setterCalls
  /\ blockOps' = blockOps \cup DenoiseOps(aiModel = "rnnoise")
  /\ UNCHANGED nonEngVars

\* lines 463-480: one unit of the DSP chain, run when it is enabled
ProcUnit ==
  /\ ppc \in Units
  /\ IF enabled_[ppc]
       THEN /\ processingBuffer_' = UnitProcess(processingBuffer_, ppc)
            /\ calls' = Append(calls, ppc)
       ELSE UNCHANGED <<processingBuffer_, calls>>
  /\ ppc' = UnitAfter(ppc)
  /\ UNCHANGED <<inputBuffer_, outputBuffer_, bypass_, meterCallback_, enabled_,
                 aiModel, cpc, capLoc, captured, pLoc, blockIn, bypassSeen,
                 cfgChanged, renderArg>>
  /\ UNCHANGED setterCalls
  /\ UNCHANGED blockOps
  /\ UNCHANGED nonEngVars

\* lines 483-485
ProcOutputMetering ==
  /\ ppc = "outputMetering"
  /\ calls' = Append(calls, "outputMetering")
  /\ ppc' = "meterCallback"
  /\ UNCHANGED <<inputBuffer_, outputBuffer_, processingBuffer_, bypass_,
                 meterCallback_, enabled_, aiModel, cpc, capLoc, captured, pLoc,
                 blockIn, bypassSeen, cfgChanged, renderArg>>
  /\ UNCHANGED setterCalls
  /\ UNCHANGED blockOps
  /\ UNCHANGED nonEngVars

\* lines 488-505: under meterMutex_ the sink is called if one is set; then the
\* status is updated and processAudioBlock returns
ProcMeterCallback ==
  /\ ppc = "meterCallback"
  /\ calls' = IF meterCallback_ THEN Append(calls, "meterCallback") ELSE calls
  /\ ppc' = "outputWrite"
  /\ UNCHANGED <<inputBuffer_, outputBuffer_, processingBuffer_, bypass_,
                 meterCallback_, enabled_, aiModel, cpc, capLoc, captured, pLoc,
                 blockIn, bypassSeen, cfgChanged, renderArg>>
  /\ UNCHANGED setterCalls
  /\ blockOps' = blockOps \cup MeterOps
  /\ UNCHANGED nonEngVars

\* line 412: outputBuffer_.write(processingBuffer_, PROCESSING_BLOCK_SIZE)
ProcOutputWrite ==
  /\ ppc = "outputWrite"
  /\ outputBuffer_' = EngRingWrite(outputBuffer_, processingBuffer_)
  /\ calls' = Append(calls, "outputBuffer")
  /\ ppc' = "render"
  /\ UNCHANGED <<inputBuffer_, processingBuffer_, bypass_, meterCallback_,
                 enabled_, aiModel, cpc, capLoc, captured, pLoc, blockIn,
                 bypassSeen, cfgChanged, renderArg>>
  /\ UNCHANGED setterCalls
  /\ UNCHANGED blockOps
  /\ UNCHANGED nonEngVars

\* lines 415-426 without an output resampler: render_->write(processingBuffer_)
ProcRender ==
  /\ ppc = "render"
  /\ IF RenderReady
       THEN /\ renderArg' = processingBuffer_
            /\ calls' = Append(calls, "render")
       ELSE UNCHANGED <<renderArg, calls>>
  /\ ppc' = "blockDone"
  /\ UNCHANGED <<inputBuffer_, outputBuffer_, processingBuffer_, bypass_,
                 meterCallback_, enabled_, aiModel, cpc, capLoc, captured, pLoc,
                 blockIn, bypassSeen, cfgChanged>>
  /\ UNCHANGED setterCalls
  /\ blockOps' = blockOps \cup RenderOps(RenderReady)
  /\ UNCHANGED nonEngVars

\* line 427: back to the condition of the inner loop
ProcNextBlock ==
  /\ ppc = "blockDone"
  /\ ppc' = "loopCheck"
  /\ UNCHANGED <<inputBuffer_, outputBuffer_, processingBuffer_, bypass_,
                 meterCallback_, enabled_, aiModel, cpc, capLoc, captured, pLoc,
                 blockIn, calls, bypassSeen, cfgChanged, renderArg>>
  /\ UNCHANGED setterCalls
  /\ UNCHANGED blockOps
  /\ UNCHANGED nonEngVars

(* ---------------------------------------------------------------------- *)
(* Engine::start, Engine::stop, the processing thread's loop, main()       *)
(* (src/engine/src/engine.cpp lines 256-313 and 389-428,                   *)
(*  src/engine/src/main.cpp)                                               *)
(* ---------------------------------------------------------------------- *)

\* the threads that call start() and stop(): main() and the thread the
\* runtime runs signalHandler on
Callers == {"main", "sig"}

InStop(t) ==
  lpc[t] \in {"stop", "stopSet", "stopNotify", "stopCapture", "stopRender", "stopJoinable",
              "stopJoin", "stopStatus"}

Snapshot ==
  [running |-> running_, threadsCreated |-> threadsCreated,
   adapterStarts |-> adapterStarts, procThreads |-> procThreads,
   capturing |-> capturing_, rendering |-> rendering_]

\* Engine::Engine; initialize() has succeeded; the signal handlers are installed
InitLife ==
  /\ running_ = FALSE
  /\ g_running = TRUE
  /\ g_engine = TRUE
  /\ lpc = [t \in Callers |-> "idle"]
  /\ mainPhase = 0
  /\ ptpc = "none"
  /\ procThreads = 0
  /\ threadsCreated = 0
  /\ ptJoinable = FALSE
  /\ capturing_ = FALSE
  /\ rendering_ = FALSE
  /\ adapterStarts = 0
  /\ pending = 0
  /\ destroyed = FALSE
  /\ aborted = FALSE
  /\ lcCalls = 0
  /\ snap = Snapshot

\* a start() that never returns early
StartReturnsEarlyNever(running) == FALSE

\* line 257: if (running_.load()) return
StartReturnsEarly(running) == running

\* line 283: if (!running_.load()) return
StopReturnsEarly(running) == ~running

\* ---- Engine::start, lines 256-280

StartCheck(t) ==
  /\ ~aborted
  /\ lpc[t] = "start"
  /\ lpc' = [lpc EXCEPT ![t] = IF StartReturnsEarly(running_) THEN "startRet"
                                ELSE "startSet"]
  /\ UNCHANGED <<running_, g_running, g_engine, mainPhase, ptpc, procThreads,
                 threadsCreated, ptJoinable, capturing_, rendering_,
                 adapterStarts, pending, destroyed, aborted, lcCalls, snap>>
  /\ UNCHANGED nonLifeVars

\* line 261
StartSetRunning(t) ==
  /\ ~aborted
  /\ lpc[t] = "startSet"
  /\ running_' = TRUE
  /\ lpc' = [lpc EXCEPT ![t] = "startThread"]
  /\ UNCHANGED <<g_running, g_engine, mainPhase, ptpc, procThreads,
                 threadsCreated, ptJoinable, capturing_, rendering_,
                 adapterStarts, pending, destroyed, aborted, lcCalls, snap>>
  /\ UNCHANGED nonLifeVars

\* line 264: a thread is created and move-assigned to processingThread_;
\* assigning to a joinable std::thread calls std::terminate
StartThread(t) ==
  /\ ~aborted
  /\ lpc[t] = "startThread"
  /\ threadsCreated' = threadsCreated + 1
  /\ procThreads' = procThreads + 1
  /\ IF ptJoinable
       THEN /\ aborted' = TRUE
            /\ UNCHANGED <<ptpc, ptJoinable>>
       ELSE /\ ptpc' = "loop"
            /\ ptJoinable' = TRUE
            /\ UNCHANGED aborted
  /\ lpc' = [lpc EXCEPT ![t] = "startCapture"]
  /\ UNCHANGED <<running_, g_running, g_engine, mainPhase, capturing_,
                 rendering_, adapterStarts, pending, destroyed, lcCalls, snap>>
  /\ UNCHANGED nonLifeVars

\* line 267: capture_->start()
StartCapture(t) ==
  /\ ~aborted
  /\ lpc[t] = "startCapture"
  /\ capturing_' = TRUE
  /\ adapterStarts' = adapterStarts + 1
  /\ lpc' = [lpc EXCEPT ![t] = "startRender"]
  /\ UNCHANGED <<running_, g_running, g_engine, mainPhase, ptpc, procThreads,
                 threadsCreated, ptJoinable, rendering_, pending, destroyed,
                 aborted, lcCalls, snap>>
  /\ UNCHANGED nonLifeVars

\* lines 270-280: render_->start(), pipe server, status
StartRender(t) ==
  /\ ~aborted
  /\ lpc[t] = "startRender"
  /\ rendering_' = TRUE
  /\ lpc' = [lpc EXCEPT ![t] = "startRet"]
  /\ UNCHANGED <<running_, g_running, g_engine, mainPhase, ptpc, procThreads,
                 threadsCreated, ptJoinable, capturing_, adapterStarts, pending,
                 destroyed, aborted, lcCalls, snap>>
  /\ UNCHANGED nonLifeVars

\* ---- Engine::stop, lines 282-313

StopCheck(t) ==
  /\ ~aborted
  /\ lpc[t] = "stop"
  /\ lpc' = [lpc EXCEPT ![t] = IF StopReturnsEarly(running_) THEN "stopRet"
                                ELSE "stopSet"]
  /\ UNCHANGED <<running_, g_running, g_engine, mainPhase, ptpc, procThreads,
                 threadsCreated, ptJoinable, capturing_, rendering_,
                 adapterStarts, pending, destroyed, aborted, lcCalls, snap>>
  /\ UNCHANGED nonLifeVars

\* line 287
StopSetRunning(t) ==
  /\ ~aborted
  /\ lpc[t] = "stopSet"
  /\ running_' = FALSE
  /\ lpc' = [lpc EXCEPT ![t] = "stopNotify"]
  /\ UNCHANGED <<g_running, g_engine, mainPhase, ptpc, procThreads,
                 threadsCreated, ptJoinable, capturing_, rendering_,
                 adapterStarts, pending, destroyed, aborted, lcCalls, snap>>
  /\ UNCHANGED nonLifeVars

\* line 290: notify_all; it wakes a thread that waits now, a thread that
\* starts waiting later evaluates the predicate first (see ProcThreadWait)
StopNotify(t) ==
  /\ ~aborted
  /\ lpc[t] = "stopNotify"
  /\ lpc' = [lpc EXCEPT ![t] = "stopCapture"]
  /\ UNCHANGED <<running_, g_running, g_engine, mainPhase, ptpc, procThreads,
                 threadsCreated, ptJoinable, capturing_, rendering_,
                 adapterStarts, pending, destroyed, aborted, lcCalls, snap>>
  /\ UNCHANGED nonLifeVars

\* lines 293-295: capture_->stop() ends and joins the capture thread
\* (wasapi_capture.cpp lines 183-206)
StopCapture(t) ==
  /\ ~aborted
  /\ lpc[t] = "stopCapture"
  /\ capturing_' = FALSE
  /\ lpc' = [lpc EXCEPT ![t] = "stopRender"]
  /\ UNCHANGED <<running_, g_running, g_engine, mainPhase, ptpc, procThreads,
                 threadsCreated, ptJoinable, rendering_, adapterStarts, pending,
                 destroyed, aborted, lcCalls, snap>>
  /\ UNCHANGED nonLifeVars

\* lines 296-303: render_->stop() (wasapi_render.cpp lines 194-219), pipe server
StopRender(t) ==
  /\ ~aborted
  /\ lpc[t] = "stopRender"
  /\ rendering_' = FALSE
  /\ lpc' = [lpc EXCEPT ![t] = "stopJoinable"]
  /\ UNCHANGED <<running_, g_running, g_engine, mainPhase, ptpc, procThreads,
                 threadsCreated, ptJoinable, capturing_, adapterStarts, pending,
                 destroyed, aborted, lcCalls, snap>>
  /\ UNCHANGED nonLifeVars

\* line 306: processingThread_.joinable()
StopJoinable(t) ==
  /\ ~aborted
  /\ lpc[t] = "stopJoinable"
  /\ lpc' = [lpc EXCEPT ![t] = IF ptJoinable THEN "stopJoin" ELSE "stopStatus"]
  /\ UNCHANGED <<running_, g_running, g_engine, mainPhase, ptpc, procThreads,
                 threadsCreated, ptJoinable, capturing_, rendering_,
                 adapterStarts, pending, destroyed, aborted, lcCalls, snap>>
  /\ UNCHANGED nonLifeVars

\* line 307: join() returns once the thread has ended
StopJoin(t) ==
  /\ ~aborted
  /\ lpc[t] = "stopJoin"
  /\ ptJoinable
  /\ ptpc = "done"
  /\ ptJoinable' = FALSE
  /\ ptpc' = "none"
  /\ lpc' = [lpc EXCEPT ![t] = "stopStatus"]
  /\ UNCHANGED <<running_, g_running, g_engine, mainPhase, procThreads,
                 threadsCreated, capturing_, rendering_, adapterStarts, pending,
                 destroyed, aborted, lcCalls, snap>>
  /\ UNCHANGED nonLifeVars

\* line 307 when another thread's join() has already taken the thread: two
\* unsynchronised calls on one std::thread are undefined; the call returns, or
\* throws std::system_error out of stop(), which ends the process here
StopJoinInvalid(t) ==
  /\ ~aborted
  /\ lpc[t] = "stopJoin"
  /\ ~ptJoinable
  /\ \/ /\ lpc' = [lpc EXCEPT ![t] = "stopStatus"]
        /\ UNCHANGED aborted
     \/ /\ aborted' = TRUE
        /\ UNCHANGED lpc
  /\ UNCHANGED <<running_, g_running, g_engine, mainPhase, ptpc, procThreads,
                 threadsCreated, ptJoinable, capturing_, rendering_,
                 adapterStarts, pending, destroyed, lcCalls, snap>>
  /\ UNCHANGED nonLifeVars

\* lines 310-313: status under statusMutex_, return
StopStatus(t) ==
  /\ ~aborted
  /\ lpc[t] = "stopStatus"
  /\ lpc' = [lpc EXCEPT ![t] = "stopRet"]
  /\ UNCHANGED <<running_, g_running, g_engine, mainPhase, ptpc, procThreads,
                 threadsCreated, ptJoinable, capturing_, rendering_,
                 adapterStarts, pending, destroyed, aborted, lcCalls, snap>>
  /\ UNCHANGED nonLifeVars

\* a thread still inside stop() after ~Engine has run uses freed members:
\* undefined, it goes on (the steps above) or crashes (this step)
StopUseAfterFree(t) ==
  /\ ~aborted
  /\ destroyed
  /\ InStop(t)
  /\ aborted' = TRUE
  /\ UNCHANGED <<running_, g_running, g_engine, lpc, mainPhase, ptpc,
                 procThreads, threadsCreated, ptJoinable, capturing_, rendering_,
                 adapterStarts, pending, destroyed, lcCalls, snap>>
  /\ UNCHANGED nonLifeVars

\* ---- the processing thread, lines 389-428

\* line 389: while (running_.load()); the thread function returns when it is false
ThreadLoop ==
  /\ ~aborted
  /\ ptpc = "loop"
  /\ IF running_
       THEN /\ ptpc' = "wait"
            /\ UNCHANGED procThreads
       ELSE /\ ptpc' = "done"
            /\ procThreads' = procThreads - 1
  /\ UNCHANGED <<running_, g_running, g_engine, lpc, mainPhase, threadsCreated,
                 ptJoinable, capturing_, rendering_, adapterStarts, pending,
                 destroyed, aborted, lcCalls, snap>>
  /\ UNCHANGED nonLifeVars

\* lines 391-397: wait_for evaluates the predicate before it blocks and
\* returns after 10 ms at the latest, so it returns in every state
ThreadWait ==
  /\ ~aborted
  /\ ptpc = "wait"
  /\ ptpc' = "check"
  /\ UNCHANGED <<running_, g_running, g_engine, lpc, mainPhase, procThreads,
                 threadsCreated, ptJoinable, capturing_, rendering_,
                 adapterStarts, pending, destroyed, aborted, lcCalls, snap>>
  /\ UNCHANGED nonLifeVars

\* lines 399-401: if (!running_.load()) break
ThreadCheck ==
  /\ ~aborted
  /\ ptpc = "check"
  /\ IF running_
       THEN /\ ptpc' = "inner"
            /\ UNCHANGED procThreads
       ELSE /\ ptpc' = "done"
            /\ procThreads' = procThreads - 1
  /\ UNCHANGED <<running_, g_running, g_engine, lpc, mainPhase, threadsCreated,
                 ptJoinable, capturing_, rendering_, adapterStarts, pending,
                 destroyed, aborted, lcCalls, snap>>
  /\ UNCHANGED nonLifeVars

\* lines 404-406: the inner loop's condition and the read of one block
ThreadInner ==
  /\ ~aborted
  /\ ptpc = "inner"
  /\ IF pending >= 1
       THEN /\ pending' = pending - 1
            /\ ptpc' = "block"
       ELSE /\ ptpc' = "loop"
            /\ UNCHANGED pending
  /\ UNCHANGED <<running_, g_running, g_engine, lpc, mainPhase, procThreads,
                 threadsCreated, ptJoinable, capturing_, rendering_,
                 adapterStarts, destroyed, aborted, lcCalls, snap>>
  /\ UNCHANGED nonLifeVars

\* lines 409-426: the block is processed and handed to render
ThreadBlock ==
  /\ ~aborted
  /\ ptpc = "block"
  /\ ptpc' = "inner"
  /\ UNCHANGED <<running_, g_running, g_engine, lpc, mainPhase, procThreads,
                 threadsCreated, ptJoinable, capturing_, rendering_,
                 adapterStarts, pending, destroyed, aborted, lcCalls, snap>>
  /\ UNCHANGED nonLifeVars

ThreadStep ==
  ThreadLoop \/ ThreadWait \/ ThreadCheck \/ ThreadInner \/ ThreadBlock

\* the capture thread delivers one more block while capture runs
\* (onAudioCaptured, lines 340-368; a full ring drops the samples)
CaptureDeliver ==
  /\ ~aborted
  /\ capturing_
  /\ pending < MaxPending
  /\ pending' = pending + 1
  /\ UNCHANGED <<running_, g_running, g_engine, lpc, mainPhase, ptpc,
                 procThreads, threadsCreated, ptJoinable, capturing_, rendering_,
                 adapterStarts, destroyed, aborted, lcCalls, snap>>
  /\ UNCHANGED nonLifeVars

\* ---- one controlling thread that calls start() and stop() in any order

LcCallStart ==
  /\ ~aborted
  /\ lpc["main"] = "idle"
  /\ lcCalls < MaxCalls
  /\ lpc' = [lpc EXCEPT !["main"] = "start"]
  /\ lcCalls' = lcCalls + 1
  /\ snap' = Snapshot
  /\ UNCHANGED <<running_, g_running, g_engine, mainPhase, ptpc, procThreads,
                 threadsCreated, ptJoinable, capturing_, rendering_,
                 adapterStarts, pending, destroyed, aborted>>
  /\ UNCHANGED nonLifeVars

LcCallStop ==
  /\ ~aborted
  /\ lpc["main"] = "idle"
  /\ lcCalls < MaxCalls
  /\ lpc' = [lpc EXCEPT !["main"] = "stop"]
  /\ lcCalls' = lcCalls + 1
  /\ snap' = Snapshot
  /\ UNCHANGED <<running_, g_running, g_engine, mainPhase, ptpc, procThreads,
                 threadsCreated, ptJoinable, capturing_, rendering_,
                 adapterStarts, pending, destroyed, aborted>>
  /\ UNCHANGED nonLifeVars

LcReturn ==
  /\ ~aborted
  /\ lpc["main"] \in {"startRet", "stopRet"}
  /\ lpc' = [lpc EXCEPT !["main"] = "idle"]
  /\ UNCHANGED <<running_, g_running, g_engine, mainPhase, ptpc, procThreads,
                 threadsCreated, ptJoinable, capturing_, rendering_,
                 adapterStarts, pending, destroyed, aborted, lcCalls, snap>>
  /\ UNCHANGED nonLifeVars

\* ---- main() and signalHandler (src/engine/src/main.cpp)

\* main.cpp line 157: engine.start()
MainStart ==
  /\ ~aborted
  /\ lpc["main"] = "idle"
  /\ mainPhase = 0
  /\ mainPhase' = 1
  /\ lpc' = [lpc EXCEPT !["main"] = "start"]
  /\ UNCHANGED <<running_, g_running, g_engine, ptpc, procThreads,
                 threadsCreated, ptJoinable, capturing_, rendering_,
                 adapterStarts, pending, destroyed, aborted, lcCalls, snap>>
  /\ UNCHANGED nonLifeVars

\* start() has returned, main enters its loop
MainStarted ==
  /\ ~aborted
  /\ lpc["main"] = "startRet"
  /\ lpc' = [lpc EXCEPT !["main"] = "mainLoop"]
  /\ UNCHANGED <<running_, g_running, g_engine, mainPhase, ptpc, procThreads,
                 threadsCreated, ptJoinable, capturing_, rendering_,
                 adapterStarts, pending, destroyed, aborted, lcCalls, snap>>
  /\ UNCHANGED nonLifeVars

\* main.cpp lines 160-166: the loop ends when g_running or isRunning() is
\* false, and main calls engine.stop()
MainLoopExit ==
  /\ ~aborted
  /\ lpc["main"] = "mainLoop"
  /\ ~(g_running /\ running_)
  /\ lpc' = [lpc EXCEPT !["main"] = "stop"]
  /\ UNCHANGED <<running_, g_running, g_engine, mainPhase, ptpc, procThreads,
                 threadsCreated, ptJoinable, capturing_, rendering_,
                 adapterStarts, pending, destroyed, aborted, lcCalls, snap>>
  /\ UNCHANGED nonLifeVars

\* main.cpp line 168 and the end of the try block: g_engine = nullptr, then
\* ~Engine calls stop() (engine.cpp line 34)
MainDestructorStop ==
  /\ ~aborted
  /\ lpc["main"] = "stopRet"
  /\ mainPhase = 1
  /\ g_engine' = FALSE
  /\ mainPhase' = 2
  /\ lpc' = [lpc EXCEPT !["main"] = "stop"]
  /\ UNCHANGED <<running_, g_running, ptpc, procThreads, threadsCreated,
                 ptJoinable, capturing_, rendering_, adapterStarts, pending,
                 destroyed, aborted, lcCalls, snap>>
  /\ UNCHANGED nonLifeVars

\* the members are destroyed after ~Engine's body: the destructor of a
\* joinable std::thread calls std::terminate
MainDestroy ==
  /\ ~aborted
  /\ lpc["main"] = "stopRet"
  /\ mainPhase = 2
  /\ IF ptJoinable
       THEN /\ aborted' = TRUE
            /\ UNCHANGED destroyed
       ELSE /\ destroyed' = TRUE
            /\ UNCHANGED aborted
  /\ lpc' = [lpc EXCEPT !["main"] = "mainReturn"]
  /\ UNCHANGED <<running_, g_running, g_engine, mainPhase, ptpc, procThreads,
                 threadsCreated, ptJoinable, capturing_, rendering_,
                 adapterStarts, pending, lcCalls, snap>>
  /\ UNCHANGED nonLifeVars

\* main.cpp lines 28-36: the handler runs on its own thread at any time
SigHandler ==
  /\ ~aborted
  /\ lpc["sig"] = "idle"
  /\ g_running' = FALSE
  /\ lpc' = [lpc EXCEPT !["sig"] = IF g_engine THEN "stop" ELSE "sigReturn"]
  /\ UNCHANGED <<running_, g_engine, mainPhase, ptpc, procThreads,
                 threadsCreated, ptJoinable, capturing_, rendering_,
                 adapterStarts, pending, destroyed, aborted, lcCalls, snap>>
  /\ UNCHANGED nonLifeVars

SigReturn ==
  /\ ~aborted
  /\ lpc["sig"] = "stopRet"
  /\ lpc' = [lpc EXCEPT !["sig"] = "sigReturn"]
  /\ UNCHANGED <<running_, g_running, g_engine, mainPhase, ptpc, procThreads,
                 threadsCreated, ptJoinable, capturing_, rendering_,
                 adapterStarts, pending, destroyed, aborted, lcCalls, snap>>
  /\ UNCHANGED nonLifeVars

(* ---------------------------------------------------------------------- *)
(* Presets and DSP parameters: the PRESET message of the pipe server,      *)
(* Engine::applyPreset, the set*Params calls and the DSP chain of          *)
(* processAudioBlock (src/engine/src/engine.cpp lines 243-254, 460-480,    *)
(* 538-623).  Parameter values are in tenths: -45.0 dB is -450, 2.5 is 25. *)
(* ---------------------------------------------------------------------- *)

PresetNames == {"podcast", "meeting", "streaming"}

\* the names a PRESET message can carry: the presets and any other text
MessageNames == PresetNames \cup {"custom"}

ExpanderValues(th, ra, at, re, hy) ==
  [enabled |-> TRUE, threshold |-> th, ratio |-> ra, attack |-> at,
   release |-> re, hysteresis |-> hy]

CompressorValues(th, ra, kn, at, re, mk) ==
  [enabled |-> TRUE, threshold |-> th, ratio |-> ra, knee |-> kn,
   attack |-> at, release |-> re, makeupGain |-> mk]

LimiterValues(ce, re, la) ==
  [enabled |-> TRUE, ceiling |-> ce, release |-> re, lookahead |-> la]

FreqQ(f, q) == [freq |-> f, q |-> q]
FreqGain(f, g) == [freq |-> f, gain |-> g]
FreqGainQ(f, g, q) == [freq |-> f, gain |-> g, q |-> q]

\* config_types.h: the member initialisers of Config (highShelf is a
\* ShelfConfig, so its default frequency is 200 Hz)
DefaultConfig ==
  [expander |-> ExpanderValues(-400, 20, 50, 1000, 30),
   compressor |-> CompressorValues(-180, 40, 60, 100, 1000, 60),
   limiter |-> LimiterValues(-10, 500, 50),
   equalizer |-> [enabled |-> TRUE,
                  highPass |-> FreqQ(800, 7),
                  lowShelf |-> FreqGain(2000, 0),
                  presence |-> FreqGainQ(30000, 0, 10),
                  highShelf |-> FreqGain(2000, 0)],
   aiModel |-> "rnnoise",
   activePreset |-> "podcast"]

\* applyPreset lines 541-567: the literals assigned for the three names; any
\* other name leaves the copy as it is
PresetAssign(config, presetName) ==
  CASE presetName = "podcast" ->
         [config EXCEPT
            !.expander = ExpanderValues(-450, 25, 50, 1000, 30),
            !.compressor = CompressorValues(-160, 35, 60, 100, 1000, 60),
            !.limiter = LimiterValues(-10, 500, 50),
            !.equalizer.highPass = FreqQ(800, 7),
            !.equalizer.lowShelf = FreqGain(2000, 10),
            !.equalizer.presence = FreqGainQ(30000, 30, 10),
            !.equalizer.highShelf = FreqGain(80000, 20)]
    [] presetName = "meeting" ->
         [config EXCEPT
            !.expander = ExpanderValues(-500, 20, 100, 1500, 40),
            !.compressor = CompressorValues(-200, 25, 80, 150, 1500, 40),
            !.limiter = LimiterValues(-30, 1000, 30),
            !.equalizer.highPass = FreqQ(1000, 7),
            !.equalizer.lowShelf = FreqGain(2000, 0),
            !.equalizer.presence = FreqGainQ(30000, 15, 10),
            !.equalizer.highShelf = FreqGain(100000, 10)]
    [] presetName = "streaming" ->
         [config EXCEPT
            !.expander = ExpanderValues(-400, 30, 30, 800, 20),
            !.compressor = CompressorValues(-140, 45, 40, 50, 800, 80),
            !.limiter = LimiterValues(-5, 300, 50),
            !.equalizer.highPass = FreqQ(800, 8),
            !.equalizer.lowShelf = FreqGain(1500, 20),
            !.equalizer.presence = FreqGainQ(40000, 40, 12),
            !.equalizer.highShelf = FreqGain(120000, 30)]
    [] OTHER -> config

\* std::clamp
Clamp(x, lo, hi) == IF x < lo THEN lo ELSE IF x > hi THEN hi ELSE x

\* What the setters of a unit keep of the values they are given: each value
\* clamped to the setter's range (the unit stores an injective function of the
\* clamped value: a linear gain, a smoothing coefficient, filter coefficients).

\* an expander whose threshold setter accepts -42 dB at the lowest
ExpanderSetNarrow(p) ==
  [enabled |-> p.enabled,
   threshold |-> Clamp(p.threshold, -420, 0),
   ratio |-> Clamp(p.ratio, 10, 100),
   attack |-> Clamp(p.attack, 1, 1000),
   release |-> Clamp(p.release, 100, 10000),
   hysteresis |-> Clamp(p.hysteresis, 0, 100)]

\* engine.cpp lines 582-591, expander.cpp lines 19-42
ExpanderSet(p) ==
  [enabled |-> p.enabled,
   threshold |-> Clamp(p.threshold, -600, 0),
   ratio |-> Clamp(p.ratio, 10, 100),
   attack |-> Clamp(p.attack, 1, 1000),
   release |-> Clamp(p.release, 100, 10000),
   hysteresis |-> Clamp(p.hysteresis, 0, 100)]

\* engine.cpp lines 593-603, compressor.cpp lines 20-42
CompressorSet(p) ==
  [enabled |-> p.enabled,
   threshold |-> Clamp(p.threshold, -400, 0),
   ratio |-> Clamp(p.ratio, 10, 200),
   knee |-> Clamp(p.knee, 0, 120),
   attack |-> Clamp(p.attack, 1, 1000),
   release |-> Clamp(p.release, 100, 10000),
   makeupGain |-> Clamp(p.makeupGain, 0, 240)]

\* engine.cpp lines 605-612, limiter.cpp lines 17-37
LimiterSet(p) ==
  [enabled |-> p.enabled,
   ceiling |-> Clamp(p.ceiling, -60, 0),
   release |-> Clamp(p.release, 100, 5000),
   lookahead |-> Clamp(p.lookahead, 0, 100)]

\* engine.cpp lines 614-623, equalizer.cpp lines 20-43
EqualizerSet(p) ==
  [enabled |-> p.enabled,
   highPass |-> FreqQ(Clamp(p.highPass.freq, 200, 5000),
                      Clamp(p.highPass.q, 5, 20)),
   lowShelf |-> FreqGain(Clamp(p.lowShelf.freq, 800, 3000),
                         Clamp(p.lowShelf.gain, -120, 120)),
   presence |-> FreqGainQ(Clamp(p.presence.freq, 20000, 60000),
                          Clamp(p.presence.gain, -120, 120),
                          Clamp(p.presence.q, 5, 40)),
   highShelf |-> FreqGain(Clamp(p.highShelf.freq, 60000, 160000),
                          Clamp(p.highShelf.gain, -120, 120))]

\* the parameters unit u holds after its set*Params call with config
UnitSet(u, config) ==
  CASE u = "expander" -> ExpanderSet(config.expander)
    [] u = "compressor" -> CompressorSet(config.compressor)
    [] u = "limiter" -> LimiterSet(config.limiter)
    [] u = "equalizer" -> EqualizerSet(config.equalizer)

\* applyPreset lines 573-576: the order of the set*Params calls
SetParamsAfter(u) ==
  CASE u = "expander" -> "compressor"
    [] u = "compressor" -> "limiter"
    [] u = "limiter" -> "equalizer"
    [] u = "equalizer" -> "idle"

InChain == chainPc # "idle"

\* ConfigManager with its defaults, initializeProcessors lines 197-231
InitCfg ==
  /\ config_ = DefaultConfig
  /\ unitParams = [u \in Units |-> UnitSet(u, DefaultConfig)]
  /\ apc = "idle"
  /\ apName = "podcast"
  /\ apConfig = DefaultConfig
  /\ presetHist = <<>>
  /\ chainPc = "idle"
  /\ chainUsed = <<>>
  /\ chainChanged = FALSE
  /\ snapshots = {DefaultConfig}

\* ---- the pipe server's thread: a PRESET message

\* pipe_server.cpp lines 161-167 and engine.cpp lines 247-250: the callback
\* gets a default Config that carries the name, stores it with applyConfig
\* and calls applyPreset(name)
PresetMessage ==
  /\ apc = "idle"
  /\ Len(presetHist) < MaxPresetCalls
  /\ \E name \in MessageNames :
       /\ config_' = [DefaultConfig EXCEPT !.activePreset = name]
       /\ apName' = name
       /\ presetHist' = Append(presetHist, name)
  /\ snapshots' = snapshots \cup {config_'}
  /\ apc' = "getConfig"
  /\ UNCHANGED <<unitParams, apConfig, chainPc, chainUsed, chainChanged>>
  /\ UNCHANGED nonCfgVars

\* applyPreset lines 539-569: the copy of the stored config, the preset's
\* literals, activePreset
ApplyPresetAssign ==
  /\ apc = "getConfig"
  /\ apConfig' = [PresetAssign(config_, apName) EXCEPT !.activePreset = apName]
  /\ apc' = "applyConfig"
  /\ UNCHANGED <<config_, unitParams, apName, presetHist, chainPc, chainUsed,
                 chainChanged, snapshots>>
  /\ UNCHANGED nonCfgVars

\* applyPreset line 570: configManager_.applyConfig(config)
\* (config_manager.cpp lines 185-189, under the manager's mutex)
ApplyPresetStore ==
  /\ apc = "applyConfig"
  /\ config_' = apConfig
  /\ snapshots' = snapshots \cup {apConfig}
  /\ apc' = "expander"
  /\ UNCHANGED <<unitParams, apName, apConfig, presetHist, chainPc, chainUsed,
                 chainChanged>>
  /\ UNCHANGED nonCfgVars

\* applyPreset lines 573-576: one set*Params call; the setters write the
\* unit's plain members with no lock
ApplySetParams ==
  /\ apc \in Units
  /\ unitParams' = [unitParams EXCEPT ![apc] = UnitSet(apc, apConfig)]
  /\ chainChanged' = (chainChanged \/ (InChain /\ unitParams' # unitParams))
  /\ apc' = SetParamsAfter(apc)
  /\ UNCHANGED <<config_, apName, apConfig, presetHist, chainPc, chainUsed,
                 snapshots>>
  /\ UNCHANGED nonCfgVars

\* Engine::setAIModel (engine.cpp lines 532-536), called while no PRESET
\* message is being handled: the stored config gets the name
CfgSetAIModel ==
  /\ apc = "idle"
  /\ \E modelName \in {"rnnoise", "deepfilter"} :
       config_' = [config_ EXCEPT !.aiModel = modelName]
  /\ snapshots' = snapshots \cup {config_'}
  /\ UNCHANGED <<unitParams, apc, apName, apConfig, presetHist, chainPc,
                 chainUsed, chainChanged>>
  /\ UNCHANGED nonCfgVars

\* ---- the processing thread inside processAudioBlock

\* lines 433-453: a block enters the DSP chain
ChainBegin ==
  /\ chainPc = "idle"
  /\ chainPc' = "expander"
  /\ chainUsed' = <<>>
  /\ chainChanged' = FALSE
  /\ UNCHANGED <<config_, unitParams, apc, apName, apConfig, presetHist,
                 snapshots>>
  /\ UNCHANGED nonCfgVars

\* lines 460-480: the unit, when enabled, processes the block with the
\* parameters it holds now
ChainUnit ==
  /\ chainPc \in Units
  /\ chainUsed' = IF unitParams[chainPc].enabled
                    THEN Append(chainUsed, [unit |-> chainPc,
                                            params |-> unitParams[chainPc]])
                    ELSE chainUsed
  /\ chainPc' = UnitAfter(chainPc)
  /\ UNCHANGED <<config_, unitParams, apc, apName, apConfig, presetHist,
                 chainChanged, snapshots>>
  /\ UNCHANGED nonCfgVars

\* lines 483-506: metering, the block is done
ChainEnd ==
  /\ chainPc = "outputMetering"
  /\ chainPc' = "idle"
  /\ UNCHANGED <<config_, unitParams, apc, apName, apConfig, presetHist,
                 chainUsed, chainChanged, snapshots>>
  /\ UNCHANGED nonCfgVars

(* ---------------------------------------------------------------------- *)
(* The sample flow capture -> inputBuffer_ -> processing thread ->         *)
(* outputBuffer_ and WasapiRender's ring -> render thread, every critical  *)
(* section one step (engine.cpp lines 340-368 and 404-427,                 *)
(* wasapi_render.cpp lines 221-239 and 282-313)                            *)
(* ---------------------------------------------------------------------- *)

\* ringBuffer_.size(), scaled down from 48000 * 2 (wasapi_render.cpp line 27)
RenderSize == RenderRingLen

\* samples the capture adapter delivers in a run: enough to fill
\* inputBuffer_ and outputBuffer_ and two blocks more
FlowSamples == BUFFER_SIZE + 2 * PROCESSING_BLOCK_SIZE

EmptyRenderRing ==
  [buf |-> [s \in 0..(RenderSize - 1) |-> 0], writePos |-> 0, readPos |-> 0]

\* a write loop that never moves readPos_
RenderStoreKeepRead(rb, x) ==
  [rb EXCEPT !.buf[rb.writePos] = x,
             !.writePos = (rb.writePos + 1) % RenderSize]

\* wasapi_render.cpp lines 229-235: one iteration of the loop of write()
RenderStore(rb, x) ==
  LET w == (rb.writePos + 1) % RenderSize
  IN  [buf |-> [rb.buf EXCEPT ![rb.writePos] = x],
       writePos |-> w,
       readPos |-> IF w = rb.readPos THEN (rb.readPos + 1) % RenderSize
                   ELSE rb.readPos]

\* wasapi_render.cpp lines 228-236: the loop over the frames of the call
RECURSIVE RenderWrite(_, _)
RenderWrite(rb, data) ==
  IF data = <<>> THEN rb
  ELSE RenderWrite(RenderStore(rb, Head(data)), Tail(data))

\* the samples between readPos_ and writePos_, oldest first
RenderStored(rb) ==
  LET n == (rb.writePos + RenderSize - rb.readPos) % RenderSize
  IN  [k \in 1..n |-> rb.buf[(rb.readPos + k - 1) % RenderSize]]

\* wasapi_render.cpp lines 289-302: framesRead for framesAvailable frames
RenderFramesRead(rb, framesAvailable) ==
  Min(framesAvailable, Len(RenderStored(rb)))

\* the samples stored in a LockFreeRingBuffer of the engine, oldest first
RingStored(ring) ==
  EngCopyOut(ring.buf, ring.readPos,
             EngReadAvailable(ring.writePos, ring.readPos))

\* the last n elements of a sequence
KeepLast(seq, n) ==
  IF Len(seq) <= n THEN seq ELSE SubSeq(seq, Len(seq) - n + 1, Len(seq))

\* the first n elements of a sequence dropped
DropFirst(seq, n) == SubSeq(seq, n + 1, Len(seq))

InitFlow ==
  /\ inputRing = EmptyRing
  /\ outputRing = EmptyRing
  /\ renderRing = EmptyRenderRing
  /\ offered = 0
  /\ lastCapture = [data |-> <<>>, stored |-> 0]
  /\ overflows = 0
  /\ silences = 0
  /\ bufferUnderruns = 0
  /\ blocksOut = 0
  /\ lastOutWrite = 0
  /\ renderFed = 0
  /\ undrained = <<>>
  /\ drainedFrames = 0
  /\ drainedSamples = 0

\* onAudioCaptured, lines 340-368 (mono input at 48 kHz): inputBuffer_.write
\* stores the first availableWrite() samples of the call and returns their
\* number, which the callback does not look at; Status is not touched
FlowCapture ==
  \E n \in 1..MaxCaptureFrames :
    /\ offered + n <= FlowSamples
    /\ LET data == [k \in 1..n |-> offered + k]
           free == EngWriteAvailable(inputRing.writePos, inputRing.readPos)
       IN  /\ inputRing' = EngRingWrite(inputRing, data)
           /\ lastCapture' = [data |-> data, stored |-> Min(n, free)]
           /\ overflows' = IF n > free THEN overflows + 1 ELSE overflows
    /\ offered' = offered + n
    /\ UNCHANGED <<outputRing, renderRing, silences, bufferUnderruns, blocksOut,
                   lastOutWrite, renderFed, undrained, drainedFrames,
                   drainedSamples>>
    /\ UNCHANGED nonFlowVars

\* processingThread lines 404-426, one iteration of the inner loop: a block
\* is read, processed, written to outputBuffer_ and handed to render_->write
FlowProcess ==
  /\ BlockAvailable(EngReadAvailable(inputRing.writePos, inputRing.readPos))
  /\ LET block == EngCopyOut(inputRing.buf, inputRing.readPos,
                             PROCESSING_BLOCK_SIZE)
         free == EngWriteAvailable(outputRing.writePos, outputRing.readPos)
     IN  /\ outputRing' = EngRingWrite(outputRing, block)
         /\ lastOutWrite' = Min(PROCESSING_BLOCK_SIZE, free)
         /\ renderRing' = IF RenderReady THEN RenderWrite(renderRing, block)
                          ELSE renderRing
         /\ undrained' = IF RenderReady
                           THEN KeepLast(undrained \o block, RenderSize - 1)
                           ELSE undrained
  /\ inputRing' = [inputRing EXCEPT
                     !.readPos = (@ + PROCESSING_BLOCK_SIZE) % (BUFFER_SIZE + 1)]
  /\ blocksOut' = blocksOut + 1
  /\ UNCHANGED <<offered, lastCapture, overflows, silences, bufferUnderruns,
                 renderFed, drainedFrames, drainedSamples>>
  /\ UNCHANGED nonFlowVars

\* WasapiRender::write(buffer, frames) called with any number of frames
RenderWriteCall ==
  \E n \in 1..MaxWriteLen :
    /\ renderFed + n <= MaxRenderFed
    /\ LET data == [k \in 1..n |-> renderFed + k]
       IN  /\ renderRing' = RenderWrite(renderRing, data)
           /\ undrained' = KeepLast(undrained \o data, RenderSize - 1)
    /\ renderFed' = renderFed + n
    /\ UNCHANGED <<inputRing, outputRing, offered, lastCapture, overflows,
                   silences, bufferUnderruns, blocksOut, lastOutWrite,
                   drainedFrames, drainedSamples>>
    /\ UNCHANGED nonFlowVars

\* renderThread lines 282-313: the device asks for framesAvailable frames;
\* under bufferMutex_ up to that many samples leave the ring, the rest of
\* the period is filled with 0.0f; Status is not touched
RenderDrain ==
  \E framesAvailable \in 1..MaxDrain :
    /\ drainedFrames + framesAvailable <= MaxDrained
    /\ drainedFrames' = drainedFrames + framesAvailable
    /\ LET framesRead == RenderFramesRead(renderRing, framesAvailable)
       IN  /\ drainedSamples' = drainedSamples + framesRead
           /\ renderRing' = [renderRing EXCEPT
                               !.readPos = (@ + framesRead) % RenderSize]
           /\ undrained' = DropFirst(undrained, Min(framesAvailable, Len(undrained)))
           /\ silences' = IF framesRead < framesAvailable THEN silences + 1
                          ELSE silences
    /\ UNCHANGED <<inputRing, outputRing, offered, lastCapture, overflows,
                   bufferUnderruns, blocksOut, lastOutWrite, renderFed>>
    /\ UNCHANGED nonFlowVars

(* ---------------------------------------------------------------------- *)
(* Engine::initialize and the adapters it sets up                          *)
(* (src/engine/src/engine.cpp, src/engine/src/audio/wasapi_capture.cpp,    *)
(*  src/engine/src/audio/wasapi_render.cpp, src/engine/src/main.cpp)       *)
(* ---------------------------------------------------------------------- *)

INTERNAL_SAMPLE_RATE == 48000

\* nSamplesPerSec of the device's mix format
SampleRates == {44100, 48000, 96000}

\* config.devices.inputDevice / outputDevice: empty or the id of a device
DeviceIds == {"", "configured"}

\* what initializeDevice acquires, in the order it acquires it
AdapterResources ==
  <<"deviceEnumerator", "device", "audioClient", "waveFormat", "audioEvent",
    "client">>

AllAcquired == Len(AdapterResources)

Acquired(k) == {AdapterResources[i] : i \in 1..k}

\* device_ is the second resource
DeviceAcquired(k) == k >= 2

\* sampleRate_ is assigned once the mix format has been read
MixFormatRead(k) == k >= 4

\* a WasapiCapture / WasapiRender as constructed; initialized is
\* WasapiRender::initialized_, callback is WasapiCapture::callback_ being set
NewAdapter ==
  [exists |-> TRUE, device |-> "", held |-> {}, initialized |-> FALSE,
   sampleRate |-> 0, callback |-> FALSE]

NoAdapter == [NewAdapter EXCEPT !.exists = FALSE]

\* initialize(deviceId): cleanup(), then initializeDevice, which returns false
\* at the first call that fails and true after the last; k resources have been
\* acquired when it returns, none of them is released on the way out
InitializeDevice(adapter, deviceId, k, rate) ==
  [adapter EXCEPT !.device = IF DeviceAcquired(k) THEN deviceId ELSE "",
                  !.held = Acquired(k),
                  !.sampleRate = IF MixFormatRead(k) THEN rate ELSE adapter.sampleRate]

DeviceInitialized(k) == k = AllAcquired

\* Resampler::initialize has no failing path
ResamplerInitialize(srcRate, dstRate) == TRUE

NeedsResampler(rate) == rate # INTERNAL_SAMPLE_RATE

\* the substrings initializeRender looks for in a friendly name
CableSubstrings == {"CABLE Input", "VB-Audio"}
DriverSubstrings == {"Virtual Speaker", "WindowsAiMic"}

\* A friendly name, as the set of these substrings that it contains: what
\* the four find calls of lines 130-143 can tell of it.
EndpointNames ==
  {{}, {"CABLE Input"}, {"VB-Audio"}, {"Virtual Speaker"}, {"WindowsAiMic"},
   {"VB-Audio", "Virtual Speaker"}}

\* the device id of the i-th endpoint of the enumeration
EndpointIds == <<"endpoint1", "endpoint2", "endpoint3">>

\* WasapiRender::enumerateDevices (wasapi_render.cpp lines 330-393): the
\* active render endpoints in the order of the collection, name and id
Enumerations ==
  UNION {[1..n -> EndpointNames] : n \in 0..MaxEndpoints}

\* line 131-132 only: a discovery that knows the VB-Cable names alone
NameMatchesCableOnly(name) == name \cap CableSubstrings # {}

\* lines 131-132 and 138-139: the two tests made on a name
NameMatches(name) ==
  \/ name \cap CableSubstrings # {}
  \/ name \cap DriverSubstrings # {}

\* the for loop of lines 128-145 from endpoint i on: the id of the first
\* endpoint whose name passes a test, the loop breaks there
RECURSIVE FirstVirtual(_, _)
FirstVirtual(devices, i) ==
  IF i > Len(devices) THEN ""
  ELSE IF NameMatches(devices[i]) THEN EndpointIds[i]
  ELSE FirstVirtual(devices, i + 1)

\* lines 120-149: the configured id, or the discovered one when it is empty
DiscoveredDevice(configured, devices) ==
  IF configured # "" THEN configured ELSE FirstVirtual(devices, 1)

NoDiscovery == [configured |-> "", devices |-> <<>>, outputDevice |-> ""]

InitInit ==
  /\ initPc = "capture"
  /\ initResult = "none"
  /\ capture_ = NoAdapter
  /\ render_ = NoAdapter
  /\ inputResampler_ = FALSE
  /\ outputResampler_ = FALSE
  /\ dspCreated = FALSE
  /\ pipeServer_ = "none"
  /\ discovery = NoDiscovery

\* initialize lines 54-57 with initializeCapture, lines 80-115
InitializeCapture ==
  /\ initPc = "capture"
  /\ \E deviceId \in DeviceIds, k \in 0..AllAcquired, rate \in SampleRates :
       LET adapter == InitializeDevice(NewAdapter, deviceId, k, rate)
           resamplerFailed ==
             /\ NeedsResampler(adapter.sampleRate)
             /\ ~ResamplerInitialize(adapter.sampleRate, INTERNAL_SAMPLE_RATE)
       IN  IF ~DeviceInitialized(k)
             THEN /\ capture_' = adapter
                  /\ initResult' = "false"
                  /\ initPc' = "returned"
                  /\ UNCHANGED inputResampler_
             ELSE /\ capture_' = [adapter EXCEPT !.callback = TRUE]
                  /\ inputResampler_' = NeedsResampler(adapter.sampleRate)
                  /\ IF resamplerFailed
                       THEN /\ initResult' = "false"
                            /\ initPc' = "returned"
                       ELSE /\ initPc' = "render"
                            /\ UNCHANGED initResult
  /\ UNCHANGED <<render_, outputResampler_, dspCreated, pipeServer_, discovery>>
  /\ UNCHANGED nonInitVars

\* initialize lines 60-63 with initializeRender, lines 117-172
InitializeRender ==
  /\ initPc = "render"
  /\ \E configured \in DeviceIds, devices \in Enumerations,
        k \in 0..AllAcquired, rate \in SampleRates :
       LET outputDevice == DiscoveredDevice(configured, devices)
           adapter == InitializeDevice(NewAdapter, outputDevice, k, rate)
           resamplerFailed ==
             /\ NeedsResampler(adapter.sampleRate)
             /\ ~ResamplerInitialize(INTERNAL_SAMPLE_RATE, adapter.sampleRate)
       IN  /\ discovery' = [configured |-> configured, devices |-> devices,
                            outputDevice |-> outputDevice]
           /\ IF outputDevice = ""
             THEN /\ render_' = NewAdapter
                  /\ initResult' = "false"
                  /\ initPc' = "returned"
                  /\ UNCHANGED outputResampler_
             ELSE IF ~DeviceInitialized(k)
               THEN /\ render_' = adapter
                    /\ initResult' = "false"
                    /\ initPc' = "returned"
                    /\ UNCHANGED outputResampler_
               ELSE /\ render_' = [adapter EXCEPT !.initialized = TRUE]
                    /\ outputResampler_' = NeedsResampler(adapter.sampleRate)
                    /\ IF resamplerFailed
                         THEN /\ initResult' = "false"
                              /\ initPc' = "returned"
                         ELSE /\ initPc' = "processors"
                              /\ UNCHANGED initResult
  /\ UNCHANGED <<capture_, inputResampler_, dspCreated, pipeServer_>>
  /\ UNCHANGED nonInitVars

\* initialize lines 66-69 with initializeProcessors, lines 174-241:
\* rnnoise_->initialize() (rnnoise_processor.cpp lines 29-46), then the DSP
\* chain and the meters
InitializeProcessors ==
  /\ initPc = "processors"
  /\ \E ok \in BOOLEAN :
       /\ rn_state_' = ok
       /\ rn_bufferPos_' = IF ok THEN 0 ELSE rn_bufferPos_
       /\ rn_outputPos_' = IF ok THEN 0 ELSE rn_outputPos_
       /\ IF ok
            THEN /\ dspCreated' = TRUE
                 /\ initPc' = "ipc"
                 /\ UNCHANGED initResult
            ELSE /\ initResult' = "false"
                 /\ initPc' = "returned"
                 /\ UNCHANGED dspCreated
  /\ UNCHANGED <<rn_frameBuffer_, rn_outputBuffer_, dpc, dLoc, dnFed, inferLog,
                 outHist>>
  /\ UNCHANGED <<capture_, render_, inputResampler_, outputResampler_,
                 pipeServer_, discovery>>
  /\ UNCHANGED nonDenInitVars

\* initialize lines 72-77 with initializeIPC, lines 243-254: the result of
\* pipeServer_->start() (pipe_server.cpp lines 19-52) is only reported
InitializeIPC ==
  /\ initPc = "ipc"
  /\ \E started \in BOOLEAN :
       pipeServer_' = IF started THEN "running" ELSE "created"
  /\ initResult' = "true"
  /\ initPc' = "returned"
  /\ UNCHANGED <<capture_, render_, inputResampler_, outputResampler_,
                 dspCreated, discovery>>
  /\ UNCHANGED nonInitVars

\* main.cpp lines 145-151: initialize() returned false, main returns and the
\* engine goes out of scope; ~WasapiCapture and ~WasapiRender call cleanup(),
\* ~RNNoiseProcessor destroys the state
MainInitFailed ==
  /\ initPc = "returned"
  /\ initResult = "false"
  /\ initPc' = "destroyed"
  /\ capture_' = NoAdapter
  /\ render_' = NoAdapter
  /\ inputResampler_' = FALSE
  /\ outputResampler_' = FALSE
  /\ dspCreated' = FALSE
  /\ pipeServer_' = "none"
  /\ rn_state_' = FALSE
  /\ UNCHANGED <<initResult, discovery>>
  /\ UNCHANGED <<rn_frameBuffer_, rn_bufferPos_, rn_outputBuffer_, rn_outputPos_,
                 dpc, dLoc, dnFed, inferLog, outHist>>
  /\ UNCHANGED nonDenInitVars

(* ---------------------------------------------------------------------- *)
(* OpenVINOProcessor (src/engine/src/ai/openvino_processor.cpp)            *)
(* ---------------------------------------------------------------------- *)

\* line 195: process returns before it touches anything
OvReturnsAtOnce(initialized) == ~initialized

\* processFrameNPU runs the model, processFrameCPU leaves the frame as it is
OvProcessed(x, available) == IF available THEN Processed(x) ELSE x

OvZeroFrame == [j \in 0..(FRAME_SIZE - 1) |-> 0]

\* the while loop of process, lines 201-223, from inputPos to frames; st is
\* [frameBuffer, bufferPos, buffer, inputPos, wild]. A completed frame is
\* copied to buffer + inputPos - FRAME_SIZE, which lies before the caller's
\* buffer when the frame began in an earlier call: wild records that write.
RECURSIVE OvRun(_, _, _)
OvRun(st, frames, available) ==
  IF st.inputPos >= frames
    THEN st
    ELSE LET toCopy == Min(frames - st.inputPos, FRAME_SIZE - st.bufferPos)
             filled == [j \in 0..(FRAME_SIZE - 1) |->
                          IF j >= st.bufferPos /\ j < st.bufferPos + toCopy
                            THEN st.buffer[st.inputPos + (j - st.bufferPos) + 1]
                            ELSE st.frameBuffer[j]]
             bufferPos == st.bufferPos + toCopy
             inputPos == st.inputPos + toCopy
             frame == [j \in 0..(FRAME_SIZE - 1) |->
                         OvProcessed(filled[j], available)]
             start == inputPos - FRAME_SIZE
             copied == [i \in 1..frames |->
                          IF i - 1 >= start /\ i - 1 < start + FRAME_SIZE
                            THEN frame[i - 1 - start]
                            ELSE st.buffer[i]]
         IN  IF bufferPos = FRAME_SIZE
               THEN OvRun([frameBuffer |-> frame, bufferPos |-> 0,
                           buffer |-> copied, inputPos |-> inputPos,
                           wild |-> st.wild \/ start < 0],
                          frames, available)
               ELSE OvRun([frameBuffer |-> filled, bufferPos |-> bufferPos,
                           buffer |-> st.buffer, inputPos |-> inputPos,
                           wild |-> st.wild],
                          frames, available)

InitOv ==
  /\ ov_initialized_ = FALSE
  /\ ov_available = FALSE
  /\ ov_frameBuffer_ = OvZeroFrame
  /\ ov_bufferPos_ = 0
  /\ ovFed = 0
  /\ ovOut = <<>>
  /\ ovWild = FALSE

\* initialize(), lines 108-132: isAvailable() and loadModel() (lines 134-192)
\* may each fail; a model compiled for a device sets Impl::available, the
\* build without the runtime leaves it false
OvInitialize ==
  /\ \E runtime \in BOOLEAN, loaded \in BOOLEAN, compiled \in BOOLEAN :
       IF runtime /\ loaded
         THEN /\ ov_initialized_' = TRUE
              /\ ov_available' = compiled
              /\ ov_bufferPos_' = 0
         ELSE UNCHANGED <<ov_initialized_, ov_available, ov_bufferPos_>>
  /\ UNCHANGED <<ov_frameBuffer_, ovFed, ovOut, ovWild>>
  /\ UNCHANGED nonOvVars

\* process(buffer, frames) with the next frames samples of the stream,
\* lines 194-224. A write outside the caller's buffer is undefined: the
\* caller's buffer then holds what the loop stored or has been overwritten.
OvProcess ==
  /\ \E n \in 1..MaxOvBlock :
       /\ ovFed + n <= MaxOvInput
       /\ ovFed' = ovFed + n
       /\ LET buffer == [k \in 1..n |-> ovFed + k]
              r == OvRun([frameBuffer |-> ov_frameBuffer_,
                          bufferPos |-> ov_bufferPos_, buffer |-> buffer,
                          inputPos |-> 0, wild |-> FALSE],
                         n, ov_available)
          IN  IF OvReturnsAtOnce(ov_initialized_)
                THEN /\ ovOut' = buffer
                     /\ UNCHANGED <<ov_frameBuffer_, ov_bufferPos_, ovWild>>
                ELSE /\ ov_frameBuffer_' = r.frameBuffer
                     /\ ov_bufferPos_' = r.bufferPos
                     /\ ovWild' = (ovWild \/ r.wild)
                     /\ ovOut' \in IF r.wild
                                     THEN {r.buffer, [k \in 1..n |-> 0]}
                                     ELSE {r.buffer}
  /\ UNCHANGED <<ov_initialized_, ov_available>>
  /\ UNCHANGED nonOvVars

(* ---------------------------------------------------------------------- *)
(* Limiter (src/engine/src/dsp/limiter.cpp, limiter.h)                     *)
(* Floats are fixed-point numbers in thousandths, rounded toward zero.     *)
(* ---------------------------------------------------------------------- *)

\* sample values of the limiter's input, in thousandths
LimSamples == {0, 2000, -1200}

\* the float 1.0f
FixedOne == 1000

Abs(x) == IF x < 0 THEN -x ELSE x

Max(a, b) == IF a >= b THEN a ELSE b

\* the product of a sample and a gain
FixedMul(x, g) ==
  IF x >= 0 THEN (x * g) \div FixedOne ELSE -(((-x) * g) \div FixedOne)

\* std::exp(-1.0f / n) for a whole number n of samples
ExpNegInv(n) ==
  CASE n = 1 -> 368
    [] n = 2 -> 607
    [] n = 3 -> 717
    [] n = 4 -> 779
    [] n = 5 -> 819
    [] n = 6 -> 846
    [] n = 7 -> 867
    [] n = 8 -> 882
    [] OTHER -> FixedOne - (FixedOne \div n) + ((FixedOne \div 2) \div (n * n))

\* std::pow(10.0f, dB / 20.0f) for the values of the model, dB in tenths
DbToLinear(db) ==
  CASE db = 0 -> 1000
    [] db = -5 -> 944
    [] db = -10 -> 891
    [] db = -30 -> 708
    [] db = -60 -> 501
    [] db = -200 -> 100
    [] db = -400 -> 10
    [] db = -600 -> 1
    [] db = 30 -> 1413
    [] db = 100 -> 3162

\* the arguments the setters are called with: dB in tenths, milliseconds
CeilingDbs == {-100, -60, -10, 0}
ReleaseMss == {10, 50, 500}
LookaheadMss == {0, 5, 10, 15}

\* ms * sampleRate_ / 1000.0f, truncated: LimRate samples every 5 ms
SamplesOfMs(ms) == (ms * LimRate) \div 5

\* setCeiling, line 18
CeilingSet(dbCeiling) == DbToLinear(Clamp(dbCeiling, -60, 0))

\* setRelease, lines 21-24
ReleaseSet(ms) == ExpNegInv(SamplesOfMs(Clamp(ms, 10, 500)))

\* setLookahead, lines 27-29
LookaheadSet(ms) == SamplesOfMs(Clamp(ms, 0, 10))

LimZeroBuffer(n) == [j \in 0..n |-> 0]

\* lines 81-82: the sample read from the slot that input then overwrites
LimDelayed(buf, pos, input) == buf[pos]

\* the peak of lines 85-88
RECURSIVE LimPeak(_, _)
LimPeak(buf, j) ==
  IF j < 0 THEN 0 ELSE Max(Abs(buf[j]), LimPeak(buf, j - 1))

\* lines 58-61 and 91-94
TargetGain(level, ceiling) ==
  IF level > ceiling THEN (ceiling * FixedOne) \div level ELSE FixedOne

\* coeff * smoothedGain_ + (1 - coeff) * targetGain
Smooth(coeff, gain, target) ==
  (coeff * gain + (FixedOne - coeff) * target) \div FixedOne

\* a gain that follows a falling target with the release coefficient
GainSlowAttack(target, gain, releaseCoeff) ==
  Smooth(releaseCoeff, gain, target)

\* lines 63-69: instant attack, slow release
GainInstantAttack(target, gain, releaseCoeff) ==
  IF target < gain THEN target ELSE Smooth(releaseCoeff, gain, target)

\* one iteration of the loop of lines 53-73 (no lookahead) or 77-114;
\* lim is [buf, pos, gain], the result carries the sample written back
LimSample(lim, input, ceiling, releaseCoeff, lookahead) ==
  IF lookahead = 0
    THEN LET target == TargetGain(Abs(input), ceiling)
             gain == GainInstantAttack(target, lim.gain, releaseCoeff)
         IN  [buf |-> lim.buf, pos |-> lim.pos, gain |-> gain,
              out |-> FixedMul(input, gain)]
    ELSE LET delayedSample == LimDelayed(lim.buf, lim.pos, input)
             stored == [lim.buf EXCEPT ![lim.pos] = input]
             target == TargetGain(LimPeak(stored, lookahead), ceiling)
             gain == IF target < lim.gain
                       THEN Smooth(ExpNegInv(lookahead), lim.gain, target)
                       ELSE Smooth(releaseCoeff, lim.gain, target)
         IN  [buf |-> stored, pos |-> (lim.pos + 1) % (lookahead + 1),
              gain |-> gain, out |-> FixedMul(delayedSample, gain)]

\* process(buffer, frames) from sample i of the block on; acc is
\* [lim, out, gains]
RECURSIVE LimRun(_, _, _, _, _, _)
LimRun(acc, block, i, ceiling, releaseCoeff, lookahead) ==
  IF i > Len(block)
    THEN acc
    ELSE LET r == LimSample(acc.lim, block[i], ceiling, releaseCoeff, lookahead)
         IN  LimRun([lim |-> [buf |-> r.buf, pos |-> r.pos, gain |-> r.gain],
                     out |-> Append(acc.out, r.out),
                     gains |-> Append(acc.gains, r.gain)],
                    block, i + 1, ceiling, releaseCoeff, lookahead)

\* Limiter::Limiter, lines 11-15: -1 dB, 50 ms, 5 ms
InitLim ==
  /\ lim_ceiling_ = CeilingSet(-10)
  /\ lim_releaseCoeff_ = ReleaseSet(50)
  /\ lim_lookaheadSamples_ = LookaheadSet(5)
  /\ lim_lookaheadBuffer_ = LimZeroBuffer(LookaheadSet(5))
  /\ lim_bufferPos_ = 0
  /\ lim_smoothedGain_ = FixedOne
  /\ limIn = <<>>
  /\ limOut = <<>>
  /\ limGains = <<>>

\* setCeiling(dbCeiling)
LimSetCeiling ==
  /\ \E db \in CeilingDbs : lim_ceiling_' = CeilingSet(db)
  /\ UNCHANGED <<lim_releaseCoeff_, lim_lookaheadSamples_, lim_lookaheadBuffer_,
                 lim_bufferPos_, lim_smoothedGain_, limIn, limOut, limGains>>
  /\ UNCHANGED nonLimVars

\* setRelease(ms)
LimSetRelease ==
  /\ \E ms \in ReleaseMss : lim_releaseCoeff_' = ReleaseSet(ms)
  /\ UNCHANGED <<lim_ceiling_, lim_lookaheadSamples_, lim_lookaheadBuffer_,
                 lim_bufferPos_, lim_smoothedGain_, limIn, limOut, limGains>>
  /\ UNCHANGED nonLimVars

\* setLookahead(ms), lines 26-37: a new length empties the ring
LimSetLookahead ==
  /\ \E ms \in LookaheadMss :
       LET newLookahead == LookaheadSet(ms)
       IN  IF newLookahead # lim_lookaheadSamples_
             THEN /\ lim_lookaheadSamples_' = newLookahead
                  /\ lim_lookaheadBuffer_' = LimZeroBuffer(newLookahead)
                  /\ lim_bufferPos_' = 0
             ELSE UNCHANGED <<lim_lookaheadSamples_, lim_lookaheadBuffer_,
                              lim_bufferPos_>>
  /\ UNCHANGED <<lim_ceiling_, lim_releaseCoeff_, lim_smoothedGain_, limIn,
                 limOut, limGains>>
  /\ UNCHANGED nonLimVars

\* process(buffer, frames) of the enabled limiter, lines 46-116
LimProcess ==
  /\ \E n \in 1..MaxLimBlock :
       /\ Len(limIn) + n <= MaxLimInput
       /\ \E block \in [1..n -> LimSamples] :
            LET r == LimRun([lim |-> [buf |-> lim_lookaheadBuffer_,
                                      pos |-> lim_bufferPos_,
                                      gain |-> lim_smoothedGain_],
                             out |-> <<>>, gains |-> <<>>],
                            block, 1, lim_ceiling_, lim_releaseCoeff_,
                            lim_lookaheadSamples_)
            IN  /\ lim_lookaheadBuffer_' = r.lim.buf
                /\ lim_bufferPos_' = r.lim.pos
                /\ lim_smoothedGain_' = r.lim.gain
                /\ limIn' = limIn \o block
                /\ limOut' = limOut \o r.out
                /\ limGains' = limGains \o r.gains
  /\ UNCHANGED <<lim_ceiling_, lim_releaseCoeff_, lim_lookaheadSamples_>>
  /\ UNCHANGED nonLimVars

(* ---------------------------------------------------------------------- *)
(* Resampler (src/engine/src/audio/resampler.cpp), one channel             *)
(* position_ is the rational position_ * dstRate_ / dstRate_, kept exactly *)
(* ---------------------------------------------------------------------- *)

\* sample rates, scaled: 2 to 1 stands for 96000 to 48000, 2 to 3 for
\* 32000 to 48000
RsRates == 1..MaxRsRate

\* the value of the k-th input frame of the stream, k from 0
RsSample(k) == (k + 1) * (k + 1)

\* output values are kept as multiples of 1/RsUnit
RsUnit(dstRate) == IF dstRate = 0 THEN 1 ELSE dstRate

\* lines 123-136 without the block boundary: the interpolation of the whole
\* stream at position pos (in units of 1/dstRate frames)
StreamInterpolated(pos, dstRate) ==
  LET idx0 == pos \div dstRate
      frac == pos % dstRate
  IN  RsSample(idx0) * (dstRate - frac) + RsSample(idx0 + 1) * frac

\* lines 123-133: idx0, idx1, frac and the interpolated frame
Interpolated(block, pos, dstRate) ==
  LET idx0 == pos \div dstRate
      idx1 == idx0 + 1
      frac == pos % dstRate
  IN  block[idx0 + 1] * (dstRate - frac) + block[idx1 + 1] * frac

\* lines 139-141: position_ -= frames, clamped at 0
RsCarry(pos, frames, dstRate) ==
  IF pos - frames * dstRate < 0 THEN 0 ELSE pos - frames * dstRate

\* the while loop of lines 122-137; acc is [pos, out]
RECURSIVE RsLoop(_, _, _, _, _)
RsLoop(acc, block, frames, srcRate, dstRate) ==
  IF acc.pos < (frames - 1) * dstRate
    THEN RsLoop([pos |-> acc.pos + srcRate,
                 out |-> Append(acc.out, Interpolated(block, acc.pos, dstRate))],
                block, frames, srcRate, dstRate)
    ELSE acc

\* Resampler::Resampler and the member initialisers of resampler.h
InitRs ==
  /\ rs_srcRate_ = 0
  /\ rs_dstRate_ = 0
  /\ rs_position_ = 0
  /\ rs_lastSample_ = 0
  /\ rsFed = 0
  /\ rsOut = <<>>

\* initialize(srcRate, dstRate, 1), lines 57-104
RsInitialize ==
  /\ \E srcRate \in RsRates, dstRate \in RsRates :
       /\ rs_srcRate_' = srcRate
       /\ rs_dstRate_' = dstRate
  /\ rs_position_' = 0
  /\ rs_lastSample_' = 0
  /\ UNCHANGED <<rsFed, rsOut>>
  /\ UNCHANGED nonRsVars

\* process(input, frames) with the next frames >= 1 frames of the stream,
\* lines 106-149
RsProcess ==
  /\ \E frames \in 1..MaxRsBlock :
       /\ rsFed + frames <= MaxRsInput
       /\ rsFed' = rsFed + frames
       /\ LET block == [k \in 1..frames |-> RsSample(rsFed + k - 1)]
              r == RsLoop([pos |-> rs_position_, out |-> <<>>], block, frames,
                          rs_srcRate_, rs_dstRate_)
          IN  IF rs_srcRate_ = rs_dstRate_
                THEN /\ rsOut' = rsOut \o [k \in 1..frames |->
                                            block[k] * RsUnit(rs_dstRate_)]
                     /\ UNCHANGED <<rs_position_, rs_lastSample_>>
                ELSE /\ rsOut' = rsOut \o r.out
                     /\ rs_position_' = RsCarry(r.pos, frames, rs_dstRate_)
                     /\ rs_lastSample_' = block[frames]
  /\ UNCHANGED <<rs_srcRate_, rs_dstRate_>>
  /\ UNCHANGED nonRsVars

(* ---------------------------------------------------------------------- *)
(* Expander (src/engine/src/dsp/expander.cpp, expander.h)                  *)
(* Levels in thousandths, dB in tenths on a grid of 10 dB.                 *)
(* ---------------------------------------------------------------------- *)

\* 20.0f * std::log10(level) for a level of at least 0.001, to the 10 dB
\* below
LevelDb(level) ==
  CASE level >= 1000 -> 0
    [] level >= 316 /\ level < 1000 -> -100
    [] level >= 100 /\ level < 316 -> -200
    [] level >= 32 /\ level < 100 -> -300
    [] level >= 10 /\ level < 32 -> -400
    [] level >= 3 /\ level < 10 -> -500
    [] OTHER -> -600

\* std::pow(10.0f, dB / 20.0f) for dB <= 0 on the grid
GainOfDb(db) ==
  CASE db >= 0 -> 1000
    [] db = -100 -> 316
    [] db = -200 -> 100
    [] db = -300 -> 32
    [] db = -400 -> 10
    [] db = -500 -> 3
    [] db = -600 -> 1
    [] OTHER -> 0

\* the ExpanderConfig values of the model: threshold and hysteresis in
\* tenths of a dB, ratio in tenths, attack and release in ms
ExpanderParams ==
  [threshold : {-700, -400, -200}, ratio : {10, 20, 100}, attack : {5},
   release : {10, 100}, hysteresis : {0, 30}]

\* magnitudes of the samples fed
ExLevels == {0, 5, 50, 1000}

\* gainReductionDb_ as line 66 stores it
ExpansionStored(expansionDb) == -expansionDb

\* computeGain(envelope), lines 49-72: [gain, gainReductionDb]
ComputeGain(envelope, threshold, ratio, gainReductionDb) ==
  IF envelope = 0
    THEN [gain |-> 1, gainReductionDb |-> gainReductionDb]
    ELSE LET envelopeDb == LevelDb(envelope)
             thresholdDb == LevelDb(threshold)
             belowDb == thresholdDb - envelopeDb
             expansionDb == (belowDb * (ratio - 10)) \div 10
         IN  IF envelopeDb < thresholdDb
               THEN [gain |-> GainOfDb(-expansionDb),
                     gainReductionDb |-> ExpansionStored(expansionDb)]
               ELSE [gain |-> FixedOne, gainReductionDb |-> 0]

\* one iteration of the loop of process, lines 79-111; ex is
\* [envelope, gateOpen, gainReductionDb, gain]
ExSample(ex, level, threshold, ratio, attackCoeff, releaseCoeff, hysteresis) ==
  LET coeff == IF level > ex.envelope THEN attackCoeff ELSE releaseCoeff
      envelope == Smooth(coeff, ex.envelope, level)
      effectiveThreshold ==
        IF ex.gateOpen THEN (threshold * FixedOne) \div hysteresis ELSE threshold
      gateOpen == IF envelope > threshold THEN TRUE
                  ELSE IF envelope < effectiveThreshold THEN FALSE
                  ELSE ex.gateOpen
      g == ComputeGain(envelope, threshold, ratio, ex.gainReductionDb)
  IN  [envelope |-> envelope, gateOpen |-> gateOpen,
       gainReductionDb |-> g.gainReductionDb, gain |-> g.gain]

RECURSIVE ExRun(_, _, _, _, _, _, _, _)
ExRun(ex, block, i, threshold, ratio, attackCoeff, releaseCoeff, hysteresis) ==
  IF i > Len(block)
    THEN ex
    ELSE ExRun(ExSample(ex, block[i], threshold, ratio, attackCoeff,
                        releaseCoeff, hysteresis),
               block, i + 1, threshold, ratio, attackCoeff, releaseCoeff,
               hysteresis)

\* Expander::Expander, lines 11-17: -40 dB, 2:1, 5 ms, 100 ms, 3 dB
InitEx ==
  /\ ex_threshold_ = DbToLinear(-400)
  /\ ex_ratio_ = 20
  /\ ex_attackCoeff_ = ExpNegInv(SamplesOfMs(5))
  /\ ex_releaseCoeff_ = ExpNegInv(SamplesOfMs(100))
  /\ ex_hysteresis_ = DbToLinear(30)
  /\ ex_envelope_ = 0
  /\ ex_gateOpen_ = FALSE
  /\ ex_gainReductionDb_ = 0
  /\ exGain = FixedOne
  /\ exFed = 0

\* Engine::setExpanderParams (engine.cpp lines 582-591) with the setters of
\* expander.cpp lines 19-41
ExSetParams ==
  /\ \E params \in ExpanderParams :
       /\ ex_threshold_' = DbToLinear(Clamp(params.threshold, -600, 0))
       /\ ex_ratio_' = Clamp(params.ratio, 10, 100)
       /\ ex_attackCoeff_' = ExpNegInv(SamplesOfMs(Clamp(params.attack, 1, 100)))
       /\ ex_releaseCoeff_' =
            ExpNegInv(SamplesOfMs(Clamp(params.release, 10, 1000)))
       /\ ex_hysteresis_' = DbToLinear(Clamp(params.hysteresis, 0, 100))
  /\ UNCHANGED <<ex_envelope_, ex_gateOpen_, ex_gainReductionDb_, exGain, exFed>>
  /\ UNCHANGED nonExVars

\* process(buffer, frames) of the enabled expander, lines 74-112
ExProcess ==
  /\ \E n \in 1..MaxExBlock :
       /\ exFed + n <= MaxExInput
       /\ exFed' = exFed + n
       /\ \E block \in [1..n -> ExLevels] :
            LET r == ExRun([envelope |-> ex_envelope_, gateOpen |-> ex_gateOpen_,
                            gainReductionDb |-> ex_gainReductionDb_,
                            gain |-> exGain],
                           block, 1, ex_threshold_, ex_ratio_, ex_attackCoeff_,
                           ex_releaseCoeff_, ex_hysteresis_)
            IN  /\ ex_envelope_' = r.envelope
                /\ ex_gateOpen_' = r.gateOpen
                /\ ex_gainReductionDb_' = r.gainReductionDb
                /\ exGain' = r.gain
  /\ UNCHANGED <<ex_threshold_, ex_ratio_, ex_attackCoeff_, ex_releaseCoeff_,
                 ex_hysteresis_>>
  /\ UNCHANGED nonExVars

(* ---------------------------------------------------------------------- *)
(* Compressor static curve (src/engine/src/dsp/compressor.cpp)             *)
(* dB in whole dB, ratio in halves; a gain is the exact fraction           *)
(* num / den, den = 0 standing for the NaN of a division by a zero knee    *)
(* width.                                                                  *)
(* ---------------------------------------------------------------------- *)

\* the CompressorConfig values of the model, some outside the setters' ranges
CmpThresholdArgs == {-50, -40, -18, 0}
CmpRatioArgs == {1, 2, 8, 60}
CmpKneeArgs == {0, 6, 20}

\* envelope levels handed to computeGainDb
CmpInputDbs == {-43, -40, -37, -34, -21, -18, -15, -12, -6, -3, 0, 3, 6, 10}

\* a <= b for fractions with positive denominators
FracLe(a, b) == a.num * b.den <= b.num * a.den

\* the slope with the sign of (1 / ratio - 1) reversed
KneeSlopeReversed(ratio, kneeWidth) ==
  [num |-> ratio - 2, den |-> ratio * 2 * kneeWidth]

\* (1.0f / ratio_ - 1.0f) / (2.0f * kneeWidth), line 68
KneeSlope(ratio, kneeWidth) ==
  [num |-> 2 - ratio, den |-> ratio * 2 * kneeWidth]

\* computeGainDb(inputDb), lines 50-73: outputDb - inputDb
ComputeGainDb(inputDb, thresholdDb, ratio, kneeDb) ==
  LET kneeStart2 == 2 * thresholdDb - kneeDb  \* twice kneeStart
      kneeEnd2 == 2 * thresholdDb + kneeDb    \* twice kneeEnd
  IN  IF 2 * inputDb < kneeStart2
        THEN [num |-> 0, den |-> 1]
        ELSE IF 2 * inputDb > kneeEnd2
          THEN \* thresholdDb_ + (inputDb - thresholdDb_) / ratio_ - inputDb
               [num |-> thresholdDb * ratio + (inputDb - thresholdDb) * 2
                          - inputDb * ratio,
                den |-> ratio]
          ELSE LET x2 == 2 * inputDb - kneeStart2  \* twice x
                   slope == KneeSlope(ratio, kneeDb)
               IN  [num |-> slope.num * x2 * x2, den |-> slope.den * 4]

\* Compressor::Compressor, lines 11-18: -18 dB, 4:1, knee 6 dB; no call of
\* computeGainDb yet
InitCmp ==
  /\ cmp_thresholdDb_ = -18
  /\ cmp_ratio_ = 8
  /\ cmp_kneeDb_ = 6
  /\ cmpEval = [called |-> FALSE, inputDb |-> 0, thresholdDb |-> -18,
                ratio |-> 8, kneeDb |-> 6, gain |-> [num |-> 0, den |-> 1]]

\* Engine::setCompressorParams (engine.cpp lines 593-603) with setThreshold,
\* setRatio and setKnee, lines 20-28
CmpSetParams ==
  /\ \E threshold \in CmpThresholdArgs, ratio \in CmpRatioArgs,
        knee \in CmpKneeArgs :
       /\ cmp_thresholdDb_' = Clamp(threshold, -40, 0)
       /\ cmp_ratio_' = Clamp(ratio, 2, 40)
       /\ cmp_kneeDb_' = Clamp(knee, 0, 12)
  /\ UNCHANGED cmpEval
  /\ UNCHANGED nonCmpVars

\* the computeGainDb(envelopeDb) call of process, line 101
CmpComputeGain ==
  /\ \E inputDb \in CmpInputDbs :
       cmpEval' = [called |-> TRUE, inputDb |-> inputDb,
                   thresholdDb |-> cmp_thresholdDb_, ratio |-> cmp_ratio_,
                   kneeDb |-> cmp_kneeDb_,
                   gain |-> ComputeGainDb(inputDb, cmp_thresholdDb_,
                                          cmp_ratio_, cmp_kneeDb_)]
  /\ UNCHANGED <<cmp_thresholdDb_, cmp_ratio_, cmp_kneeDb_>>
  /\ UNCHANGED nonCmpVars

(* ---------------------------------------------------------------------- *)
(* RNNoiseProcessor::setAttenuation (rnnoise_processor.cpp)                *)
(* ---------------------------------------------------------------------- *)

\* attenuation arguments in tenths of a dB
AttenuationDbs == {-700, -600, -200, 0}

\* float attenuation_ = 1.0f, rnnoise_processor.h line 73
InitAtt == rn_attenuation_ = FixedOne

\* setAttenuation(db), lines 60-65
RnSetAttenuation ==
  /\ \E db \in AttenuationDbs :
       rn_attenuation_' = DbToLinear(Clamp(db, -600, 0))
  /\ UNCHANGED nonAttVars

(* ---------------------------------------------------------------------- *)
(* The tray app's bypass toggle and the pipe server's command handler      *)
(* (src/app/src/tray_app.cpp, src/engine/src/ipc/pipe_server.cpp); the     *)
(* tray's pipe client is connected. A message is [command, data], the two  *)
(* halves processMessage splits it into at the first colon. PRESET         *)
(* messages are the subject of PresetMessage.                              *)
(* ---------------------------------------------------------------------- *)

\* "BYPASS:" + (bypass_ ? "1" : "0"), tray_app.cpp line 225
BypassCommand(bypass) ==
  [command |-> "BYPASS", data |-> IF bypass THEN "1" ELSE "0"]

\* the other commands a client writes
ClientCommands ==
  {[command |-> "PING", data |-> ""], [command |-> "GET_STATUS", data |-> ""],
   [command |-> "CONFIG", data |-> "{}"]}

\* what processMessage writes back, lines 137-153
ResponseTo(message, last) ==
  CASE message.command = "PING" -> "PONG"
    [] message.command = "GET_STATUS" -> "STATUS:OK"
    [] OTHER -> last

\* Engine::bypass_ after processMessage, lines 127-172: no branch touches it;
\* the BYPASS branch of lines 168-171 is empty
BypassAfterMessage(message, bypass) == bypass

InitTray ==
  /\ tray_bypass_ = FALSE
  /\ pipeMessages = <<>>
  /\ pipeSent = 0
  /\ trayToggles = 0
  /\ pipeResponse = ""

\* TrayApp::onBypass, tray_app.cpp lines 219-230
TrayOnBypass ==
  /\ pipeSent < MaxPipeSent
  /\ Len(pipeMessages) < MaxPipeQueue
  /\ tray_bypass_' = ~tray_bypass_
  /\ pipeMessages' = Append(pipeMessages, BypassCommand(tray_bypass_'))
  /\ pipeSent' = pipeSent + 1
  /\ trayToggles' = trayToggles + 1
  /\ UNCHANGED pipeResponse
  /\ UNCHANGED nonTrayVars

\* PipeClient::sendCommand with one of the other commands,
\* pipe_client.cpp lines 81-97
ClientSendCommand ==
  /\ pipeSent < MaxPipeSent
  /\ Len(pipeMessages) < MaxPipeQueue
  /\ \E message \in ClientCommands :
       pipeMessages' = Append(pipeMessages, message)
  /\ pipeSent' = pipeSent + 1
  /\ UNCHANGED <<tray_bypass_, trayToggles, pipeResponse>>
  /\ UNCHANGED nonTrayVars

\* PipeServer::processMessage for the oldest message of the pipe,
\* pipe_server.cpp lines 127-172
PipeProcessMessage ==
  /\ pipeMessages # <<>>
  /\ LET message == Head(pipeMessages)
     IN  /\ pipeResponse' = ResponseTo(message, pipeResponse)
         /\ bypass_' = BypassAfterMessage(message, bypass_)
  /\ pipeMessages' = Tail(pipeMessages)
  /\ UNCHANGED <<tray_bypass_, pipeSent, trayToggles>>
  /\ UNCHANGED <<inputBuffer_, outputBuffer_, processingBuffer_, meterCallback_,
                 enabled_, aiModel, cpc, capLoc, captured, ppc, pLoc, blockIn,
                 calls, bypassSeen, cfgChanged, renderArg, setterCalls, blockOps>>
  /\ UNCHANGED <<ringVars, denVars, lifeVars, cfgVars, flowVars, initVars,
                 ovVars, limVars, rsVars, exVars, cmpVars, attVars, wtVars,
                 unVars, lrVars>>

(* ---------------------------------------------------------------------- *)
(* The processing thread's wait and the capture callback's notification    *)
(* (engine.cpp lines 363-367 and 389-420), running_ true throughout.       *)
(* wait_for(lock, 10 ms, pred) evaluates pred, blocks when it is false,    *)
(* and returns when pred is true after a wake-up or when 10 ms are over.   *)
(* The callback takes no mutex, so its write and notify_one can fall       *)
(* between the evaluation of pred and the moment the thread blocks.        *)
(* ---------------------------------------------------------------------- *)

\* a wait without the 10 ms limit
WaitNeverTimesOut == FALSE

\* the wait of line 393 is limited to std::chrono::milliseconds(10)
WaitTimesOut == TRUE

\* the predicate of lines 394-395 with running_ true
WaitPredicate(stored) == stored >= PROCESSING_BLOCK_SIZE

InitWt ==
  /\ waitPc = "wait"
  /\ waitWoken = FALSE
  /\ waitStored = 0
  /\ waitCapPc = "idle"
  /\ waitCallbacks = 0
  /\ waitBlocks = 0

\* onAudioCaptured up to line 364: inputBuffer_.write(audioData, audioFrames)
WaitCaptureWrite ==
  /\ waitCapPc = "idle"
  /\ waitCallbacks < MaxWaitCallbacks
  /\ \E frames \in 1..MaxCaptureFrames :
       waitStored' = waitStored + Min(frames, BUFFER_SIZE - waitStored)
  /\ waitCallbacks' = waitCallbacks + 1
  /\ waitCapPc' = "notify"
  /\ UNCHANGED <<waitPc, waitWoken, waitBlocks>>
  /\ UNCHANGED nonWtVars

\* line 367: processingCv_.notify_one() wakes the thread if it is blocked
\* and is lost otherwise
WaitCaptureNotify ==
  /\ waitCapPc = "notify"
  /\ waitWoken' = (waitWoken \/ waitPc = "blocked")
  /\ waitCapPc' = "idle"
  /\ UNCHANGED <<waitPc, waitStored, waitCallbacks, waitBlocks>>
  /\ UNCHANGED nonWtVars

\* lines 392-395: the lock is taken and wait_for evaluates the predicate
WaitEnter ==
  /\ waitPc = "wait"
  /\ waitPc' = IF WaitPredicate(waitStored) THEN "check" ELSE "toBlock"
  /\ UNCHANGED <<waitWoken, waitStored, waitCapPc, waitCallbacks, waitBlocks>>
  /\ UNCHANGED nonWtVars

\* wait_for releases the lock and blocks
WaitBlock ==
  /\ waitPc = "toBlock"
  /\ waitPc' = "blocked"
  /\ waitWoken' = FALSE
  /\ UNCHANGED <<waitStored, waitCapPc, waitCallbacks, waitBlocks>>
  /\ UNCHANGED nonWtVars

\* a notification wakes the thread: wait_for returns if the predicate holds
\* and blocks again otherwise
WaitNotified ==
  /\ waitPc = "blocked"
  /\ waitWoken
  /\ waitWoken' = FALSE
  /\ waitPc' = IF WaitPredicate(waitStored) THEN "check" ELSE "blocked"
  /\ UNCHANGED <<waitStored, waitCapPc, waitCallbacks, waitBlocks>>
  /\ UNCHANGED nonWtVars

\* the 10 ms are over: wait_for returns whatever the predicate says
WaitTimeout ==
  /\ waitPc = "blocked"
  /\ WaitTimesOut
  /\ waitWoken' = FALSE
  /\ waitPc' = "check"
  /\ UNCHANGED <<waitStored, waitCapPc, waitCallbacks, waitBlocks>>
  /\ UNCHANGED nonWtVars

\* lines 399-401: running_ is true, the thread goes on to the inner loop
WaitRunningCheck ==
  /\ waitPc = "check"
  /\ waitPc' = "inner"
  /\ UNCHANGED <<waitWoken, waitStored, waitCapPc, waitCallbacks, waitBlocks>>
  /\ UNCHANGED nonWtVars

\* line 404: the condition of the inner while loop
WaitInnerCheck ==
  /\ waitPc = "inner"
  /\ waitPc' = IF BlockAvailable(waitStored) THEN "read" ELSE "wait"
  /\ UNCHANGED <<waitWoken, waitStored, waitCapPc, waitCallbacks, waitBlocks>>
  /\ UNCHANGED nonWtVars

\* lines 406-419: one block is read and processed
WaitProcessBlock ==
  /\ waitPc = "read"
  /\ waitStored' = waitStored - PROCESSING_BLOCK_SIZE
  /\ waitBlocks' = waitBlocks + 1
  /\ waitPc' = "inner"
  /\ UNCHANGED <<waitWoken, waitCapPc, waitCallbacks>>
  /\ UNCHANGED nonWtVars

(* ---------------------------------------------------------------------- *)
(* setEnabled and process of the four DSP units (expander.cpp,             *)
(* equalizer.cpp, compressor.cpp, limiter.cpp). The limiter and the        *)
(* expander run their loops as modelled above, with the parameters of      *)
(* their constructors; the loops of the compressor and of the equalizer    *)
(* are not computed: an enabled call leaves any envelope, gain, filter     *)
(* memory and buffer.                                                      *)
(* ---------------------------------------------------------------------- *)

\* buffers handed to the units, samples in thousandths
UnBlocks == {<<2000>>, <<0, 2000>>, <<2000, 2000, 0>>}

\* buffers the equalizer can leave where it was handed n samples
UnOutputs(n) == {[k \in 1..n |-> 0]} \cup {b \in UnBlocks : Len(b) = n}

\* values the compressor's envelope_ and smoothedGain_ and the equalizer's
\* memories can be left with
UnLevels == {0, 2000}
UnGains == {FixedOne, 500}
UnMemories == {0, 1}

\* a unit that processes whatever enabled_ says
UnitReturnsAtOnceNever(enabled) == FALSE

\* if (!enabled_) return; the first statement of each process
UnitReturnsAtOnce(enabled) == ~enabled

\* the internal state of a unit
UnitState(unit) ==
  CASE unit = "limiter" ->
         <<lim_lookaheadBuffer_, lim_bufferPos_, lim_smoothedGain_>>
    [] unit = "expander" -> <<ex_envelope_, ex_gateOpen_, ex_gainReductionDb_>>
    [] unit = "compressor" -> <<cmp_envelope_, cmp_smoothedGain_>>
    [] unit = "equalizer" -> <<eq_memory>>

\* the call about to be made
UnitCall(unit, block) ==
  [unit |-> unit, enabled |-> unEnabled[unit], buffer |-> block,
   state |-> UnitState(unit)]

\* buffer[i] = input * gain of Expander::process, lines 109-110, from sample
\* i of the block on
RECURSIVE ExOutput(_, _, _, _, _, _, _, _)
ExOutput(ex, block, i, threshold, ratio, attackCoeff, releaseCoeff, hysteresis) ==
  IF i > Len(block)
    THEN <<>>
    ELSE LET r == ExSample(ex, Abs(block[i]), threshold, ratio, attackCoeff,
                           releaseCoeff, hysteresis)
         IN  <<FixedMul(block[i], r.gain)>>
               \o ExOutput(r, block, i + 1, threshold, ratio, attackCoeff,
                           releaseCoeff, hysteresis)

\* enabled_ = true and the state after reset() for the compressor and the
\* equalizer (compressor.h line 74, equalizer.h line 73)
InitUn ==
  /\ unEnabled = [u \in Units |-> TRUE]
  /\ cmp_envelope_ = 0
  /\ cmp_smoothedGain_ = FixedOne
  /\ eq_memory = 0
  /\ unBuffer = <<>>
  /\ unBefore = [unit |-> "limiter", enabled |-> TRUE, buffer |-> <<>>,
                 state |-> <<>>]
  /\ unCalls = 0

\* setEnabled(enabled) of one unit
UnSetEnabled ==
  /\ \E unit \in Units, enabled \in BOOLEAN :
       unEnabled' = [unEnabled EXCEPT ![unit] = enabled]
  /\ UNCHANGED <<cmp_envelope_, cmp_smoothedGain_, eq_memory, unBuffer,
                 unBefore, unCalls>>
  /\ UNCHANGED nonUnVars

\* Limiter::process(buffer, n), limiter.cpp lines 46-116
UnLimiterProcess ==
  /\ unCalls < MaxUnCalls
  /\ unCalls' = unCalls + 1
  /\ \E block \in UnBlocks :
         LET r == LimRun([lim |-> [buf |-> lim_lookaheadBuffer_,
                                   pos |-> lim_bufferPos_,
                                   gain |-> lim_smoothedGain_],
                          out |-> <<>>, gains |-> <<>>],
                         block, 1, lim_ceiling_, lim_releaseCoeff_,
                         lim_lookaheadSamples_)
         IN  /\ unBefore' = UnitCall("limiter", block)
             /\ IF UnitReturnsAtOnce(unEnabled["limiter"])
                  THEN /\ unBuffer' = block
                       /\ UNCHANGED <<lim_lookaheadBuffer_, lim_bufferPos_,
                                      lim_smoothedGain_>>
                  ELSE /\ unBuffer' = r.out
                       /\ lim_lookaheadBuffer_' = r.lim.buf
                       /\ lim_bufferPos_' = r.lim.pos
                       /\ lim_smoothedGain_' = r.lim.gain
  /\ UNCHANGED <<lim_ceiling_, lim_releaseCoeff_, lim_lookaheadSamples_, limIn,
                 limOut, limGains>>
  /\ UNCHANGED <<unEnabled, cmp_envelope_, cmp_smoothedGain_, eq_memory>>
  /\ UNCHANGED <<ringVars, denVars, engVars, lifeVars, cfgVars, flowVars,
                 initVars, ovVars, rsVars, exVars, cmpVars, attVars, trayVars,
                 wtVars, lrVars>>

\* Expander::process(buffer, n), expander.cpp lines 74-112
UnExpanderProcess ==
  /\ unCalls < MaxUnCalls
  /\ unCalls' = unCalls + 1
  /\ \E block \in UnBlocks :
       LET n == Len(block) IN
         LET ex == [envelope |-> ex_envelope_, gateOpen |-> ex_gateOpen_,
                    gainReductionDb |-> ex_gainReductionDb_, gain |-> exGain]
             r == ExRun(ex, [k \in 1..n |-> Abs(block[k])], 1, ex_threshold_,
                        ex_ratio_, ex_attackCoeff_, ex_releaseCoeff_,
                        ex_hysteresis_)
         IN  /\ unBefore' = UnitCall("expander", block)
             /\ IF UnitReturnsAtOnce(unEnabled["expander"])
                  THEN /\ unBuffer' = block
                       /\ UNCHANGED <<ex_envelope_, ex_gateOpen_,
                                      ex_gainReductionDb_, exGain>>
                  ELSE /\ unBuffer' =
                            ExOutput(ex, block, 1, ex_threshold_, ex_ratio_,
                                     ex_attackCoeff_, ex_releaseCoeff_,
                                     ex_hysteresis_)
                       /\ ex_envelope_' = r.envelope
                       /\ ex_gateOpen_' = r.gateOpen
                       /\ ex_gainReductionDb_' = r.gainReductionDb
                       /\ exGain' = r.gain
  /\ UNCHANGED <<ex_threshold_, ex_ratio_, ex_attackCoeff_, ex_releaseCoeff_,
                 ex_hysteresis_, exFed>>
  /\ UNCHANGED <<unEnabled, cmp_envelope_, cmp_smoothedGain_, eq_memory>>
  /\ UNCHANGED <<ringVars, denVars, engVars, lifeVars, cfgVars, flowVars,
                 initVars, ovVars, limVars, rsVars, cmpVars, attVars, trayVars,
                 wtVars, lrVars>>

\* Compressor::process(buffer, n), compressor.cpp lines 75-114
UnCompressorProcess ==
  /\ unCalls < MaxUnCalls
  /\ unCalls' = unCalls + 1
  /\ \E block \in UnBlocks :
       LET n == Len(block) IN
         /\ unBefore' = UnitCall("compressor", block)
         /\ IF UnitReturnsAtOnce(unEnabled["compressor"])
              THEN /\ unBuffer' = block
                   /\ UNCHANGED <<cmp_envelope_, cmp_smoothedGain_>>
              ELSE \E envelope \in UnLevels, gain \in UnGains :
                     /\ cmp_envelope_' = envelope
                     /\ cmp_smoothedGain_' = gain
                     /\ unBuffer' = [k \in 1..n |-> FixedMul(block[k], gain)]
  /\ UNCHANGED <<unEnabled, eq_memory>>
  /\ UNCHANGED nonUnVars

\* Equalizer::process(buffer, n), equalizer.cpp lines 63-108
UnEqualizerProcess ==
  /\ unCalls < MaxUnCalls
  /\ unCalls' = unCalls + 1
  /\ \E block \in UnBlocks :
       LET n == Len(block) IN
         /\ unBefore' = UnitCall("equalizer", block)
         /\ IF UnitReturnsAtOnce(unEnabled["equalizer"])
              THEN /\ unBuffer' = block
                   /\ UNCHANGED eq_memory
              ELSE /\ eq_memory' \in UnMemories
                   /\ unBuffer' \in UnOutputs(n)
  /\ UNCHANGED <<unEnabled, cmp_envelope_, cmp_smoothedGain_>>
  /\ UNCHANGED nonUnVars

(* ---------------------------------------------------------------------- *)
(* Limiter::process on the processing thread while applyPreset runs        *)
(* setLimiterParams on the pipe server thread (engine.cpp lines 247-251,   *)
(* 538-578, 605-612; limiter.cpp). Neither takes a lock. The steps are the *)
(* statements that read or write lookaheadSamples_, lookaheadBuffer_ and   *)
(* bufferPos_; an access outside the ring ends the processing thread,      *)
(* what the program does after it is not modelled.                         *)
(* ---------------------------------------------------------------------- *)

\* the buffers process is called with
LrInputs == {<<2000, 0>>, <<0, 2000, 2000>>}

\* lookaheadBuffer_.size()
LrSize(buf) == Cardinality(DOMAIN buf)

\* std::exp(-1.0f / static_cast<float>(lookaheadSamples_)), lines 99-100; the
\* quotient is -inf for 0
LrAttackCoeff(lookahead) == IF lookahead = 0 THEN 0 ELSE ExpNegInv(lookahead)

\* the limiter values applyPreset hands to setLimiterParams
LrPresetLimiter(presetName) == PresetAssign(DefaultConfig, presetName).limiter

InitLr ==
  /\ lrPc = "idle"
  /\ lrBlock = <<>>
  /\ lrI = 1
  /\ lrDelayed = 0
  /\ lrStartSize = 0
  /\ lrOut = <<>>
  /\ lrSetPc = "idle"
  /\ lrBlocks = 0
  /\ lrSets = 0

\* ---- the processing thread

\* lines 46-51: the call begins and takes one of the two loops
LrEnter ==
  /\ lrPc = "idle"
  /\ lrBlocks < MaxLrBlocks
  /\ lrBlocks' = lrBlocks + 1
  /\ lrBlock' \in LrInputs
  /\ lrI' = 1
  /\ lrOut' = <<>>
  /\ lrStartSize' = LrSize(lim_lookaheadBuffer_)
  /\ lrPc' = IF lim_lookaheadSamples_ = 0 THEN "plain" ELSE "store"
  /\ UNCHANGED <<lrDelayed, lrSetPc, lrSets>>
  /\ UNCHANGED nonLrVars

\* lines 53-73: one iteration of the loop without lookahead
LrPlain ==
  /\ lrPc = "plain"
  /\ LET target == TargetGain(Abs(lrBlock[lrI]), lim_ceiling_)
         gain == GainInstantAttack(target, lim_smoothedGain_, lim_releaseCoeff_)
     IN  /\ lim_smoothedGain_' = gain
         /\ lrOut' = Append(lrOut, FixedMul(lrBlock[lrI], gain))
  /\ lrI' = lrI + 1
  /\ lrPc' = IF lrI = Len(lrBlock) THEN "idle" ELSE "plain"
  /\ UNCHANGED <<lim_ceiling_, lim_releaseCoeff_, lim_lookaheadSamples_,
                 lim_lookaheadBuffer_, lim_bufferPos_, limIn, limOut, limGains>>
  /\ UNCHANGED <<lrBlock, lrDelayed, lrStartSize, lrSetPc, lrBlocks, lrSets>>
  /\ UNCHANGED <<ringVars, denVars, engVars, lifeVars, cfgVars, flowVars,
                 initVars, ovVars, rsVars, exVars, cmpVars, attVars, trayVars,
                 wtVars, unVars>>

\* lines 81-82: lookaheadBuffer_[bufferPos_] is read and overwritten
LrStore ==
  /\ lrPc = "store"
  /\ IF lim_bufferPos_ \in DOMAIN lim_lookaheadBuffer_
       THEN /\ lrDelayed' = LimDelayed(lim_lookaheadBuffer_, lim_bufferPos_,
                                       lrBlock[lrI])
            /\ lim_lookaheadBuffer_' =
                 [lim_lookaheadBuffer_ EXCEPT ![lim_bufferPos_] = lrBlock[lrI]]
            /\ lrPc' = "gain"
       ELSE /\ lrPc' = "wild"
            /\ UNCHANGED <<lrDelayed, lim_lookaheadBuffer_>>
  /\ UNCHANGED <<lim_ceiling_, lim_releaseCoeff_, lim_lookaheadSamples_,
                 lim_bufferPos_, lim_smoothedGain_, limIn, limOut, limGains>>
  /\ UNCHANGED <<lrBlock, lrI, lrStartSize, lrOut, lrSetPc, lrBlocks, lrSets>>
  /\ UNCHANGED <<ringVars, denVars, engVars, lifeVars, cfgVars, flowVars,
                 initVars, ovVars, rsVars, exVars, cmpVars, attVars, trayVars,
                 wtVars, unVars>>

\* lines 84-112: peak over the ring as it is now, gain, output, and
\* bufferPos_ = (bufferPos_ + 1) % lookaheadBuffer_.size()
LrGain ==
  /\ lrPc = "gain"
  /\ LET size == LrSize(lim_lookaheadBuffer_)
         target == TargetGain(LimPeak(lim_lookaheadBuffer_, size - 1),
                              lim_ceiling_)
         gain == IF target < lim_smoothedGain_
                   THEN Smooth(LrAttackCoeff(lim_lookaheadSamples_),
                               lim_smoothedGain_, target)
                   ELSE Smooth(lim_releaseCoeff_, lim_smoothedGain_, target)
     IN  /\ lim_smoothedGain_' = gain
         /\ lrOut' = Append(lrOut, FixedMul(lrDelayed, gain))
         /\ lim_bufferPos_' = (lim_bufferPos_ + 1) % size
  /\ lrI' = lrI + 1
  /\ lrPc' = IF lrI = Len(lrBlock) THEN "idle" ELSE "store"
  /\ UNCHANGED <<lim_ceiling_, lim_releaseCoeff_, lim_lookaheadSamples_,
                 lim_lookaheadBuffer_, limIn, limOut, limGains>>
  /\ UNCHANGED <<lrBlock, lrDelayed, lrStartSize, lrSetPc, lrBlocks, lrSets>>
  /\ UNCHANGED <<ringVars, denVars, engVars, lifeVars, cfgVars, flowVars,
                 initVars, ovVars, rsVars, exVars, cmpVars, attVars, trayVars,
                 wtVars, unVars>>

\* ---- the pipe server thread

\* engine.cpp lines 605-610 and limiter.cpp lines 26-32: setEnabled,
\* setCeiling, setRelease, and setLookahead up to the write of
\* lookaheadSamples_
LrSetBegin ==
  /\ lrSetPc = "idle"
  /\ lrSets < MaxLrSets
  /\ lrSets' = lrSets + 1
  /\ \E presetName \in PresetNames :
       LET params == LrPresetLimiter(presetName)
           newLookahead == LookaheadSet(params.lookahead \div 10)
       IN  /\ lim_ceiling_' = CeilingSet(params.ceiling)
           /\ lim_releaseCoeff_' = ReleaseSet(params.release \div 10)
           /\ IF newLookahead # lim_lookaheadSamples_
                THEN /\ lim_lookaheadSamples_' = newLookahead
                     /\ lrSetPc' = "resize"
                ELSE UNCHANGED <<lim_lookaheadSamples_, lrSetPc>>
  /\ UNCHANGED <<lim_lookaheadBuffer_, lim_bufferPos_, lim_smoothedGain_, limIn,
                 limOut, limGains>>
  /\ UNCHANGED <<lrPc, lrBlock, lrI, lrDelayed, lrStartSize, lrOut, lrBlocks>>
  /\ UNCHANGED <<ringVars, denVars, engVars, lifeVars, cfgVars, flowVars,
                 initVars, ovVars, rsVars, exVars, cmpVars, attVars, trayVars,
                 wtVars, unVars>>

\* limiter.cpp lines 33-34: resize and fill
LrResize ==
  /\ lrSetPc = "resize"
  /\ lim_lookaheadBuffer_' = LimZeroBuffer(lim_lookaheadSamples_)
  /\ lrSetPc' = "resetPos"
  /\ UNCHANGED <<lim_ceiling_, lim_releaseCoeff_, lim_lookaheadSamples_,
                 lim_bufferPos_, lim_smoothedGain_, limIn, limOut, limGains>>
  /\ UNCHANGED <<lrPc, lrBlock, lrI, lrDelayed, lrStartSize, lrOut, lrBlocks,
                 lrSets>>
  /\ UNCHANGED <<ringVars, denVars, engVars, lifeVars, cfgVars, flowVars,
                 initVars, ovVars, rsVars, exVars, cmpVars, attVars, trayVars,
                 wtVars, unVars>>

\* limiter.cpp line 35: bufferPos_ = 0
LrResetPos ==
  /\ lrSetPc = "resetPos"
  /\ lim_bufferPos_' = 0
  /\ lrSetPc' = "idle"
  /\ UNCHANGED <<lim_ceiling_, lim_releaseCoeff_, lim_lookaheadSamples_,
                 lim_lookaheadBuffer_, lim_smoothedGain_, limIn, limOut,
                 limGains>>
  /\ UNCHANGED <<lrPc, lrBlock, lrI, lrDelayed, lrStartSize, lrOut, lrBlocks,
                 lrSets>>
  /\ UNCHANGED <<ringVars, denVars, engVars, lifeVars, cfgVars, flowVars,
                 initVars, ovVars, rsVars, exVars, cmpVars, attVars, trayVars,
                 wtVars, unVars>>

(* ---------------------------------------------------------------------- *)
(* Specifications                                                          *)
(* ---------------------------------------------------------------------- *)

Init ==
  /\ InitRing
  /\ InitDen
  /\ InitEng
  /\ InitLife
  /\ InitCfg
  /\ InitFlow
  /\ InitInit
  /\ InitOv
  /\ InitLim
  /\ InitRs
  /\ InitEx
  /\ InitCmp
  /\ InitAtt
  /\ InitTray
  /\ InitWt
  /\ InitUn
  /\ InitLr

NextRing ==
  \/ WriteLoadWrite
  \/ WriteLoadRead
  \/ WriteCopy
  \/ WriteStore
  \/ ReadLoadRead
  \/ ReadLoadWrite
  \/ ReadCopy
  \/ ReadStore

SpecRing == Init /\ [][NextRing]_vars

\* initialize() is called before the stream starts and the stream starts
\* once it has succeeded, as in the engine (engine.cpp lines 176-181,
\* main.cpp lines 145-157)
NextDenoiser ==
  \/ (dnFed = 0 /\ RnInitialize)
  \/ (rn_state_ /\ ProcessEnter)
  \/ ProcessLoop
  \/ ProcessReturn

SpecDenoiser == Init /\ [][NextDenoiser]_vars

NextEngine ==
  \/ CaptureLoad
  \/ CaptureStore
  \/ SetBypass
  \/ SetMeterCallback
  \/ SetEnabled
  \/ SetAIModel
  \/ ProcWait
  \/ ProcLoopCheck
  \/ ProcReadLoad
  \/ ProcReadCopy
  \/ ProcInputMetering
  \/ ProcBypassCheck
  \/ ProcBypassReturn
  \/ ProcDenoise
  \/ ProcUnit
  \/ ProcOutputMetering
  \/ ProcMeterCallback
  \/ ProcOutputWrite
  \/ ProcRender
  \/ ProcNextBlock

SpecEngine == Init /\ [][NextEngine]_vars

StartStep(t) ==
  \/ StartCheck(t)
  \/ StartSetRunning(t)
  \/ StartThread(t)
  \/ StartCapture(t)
  \/ StartRender(t)

StopStep(t) ==
  \/ StopCheck(t)
  \/ StopSetRunning(t)
  \/ StopNotify(t)
  \/ StopCapture(t)
  \/ StopRender(t)
  \/ StopJoinable(t)
  \/ StopJoin(t)
  \/ StopStatus(t)

NextLifecycle ==
  \/ LcCallStart
  \/ LcCallStop
  \/ LcReturn
  \/ StartStep("main")
  \/ StopStep("main")
  \/ ThreadStep
  \/ CaptureDeliver

SpecLifecycle == Init /\ [][NextLifecycle]_vars

\* every thread that can take a step eventually takes one
SpecLifecycleFair ==
  /\ SpecLifecycle
  /\ WF_vars(StartStep("main") \/ StopStep("main"))
  /\ WF_vars(ThreadStep)

MainStep ==
  \/ MainStart
  \/ MainStarted
  \/ MainLoopExit
  \/ MainDestructorStop
  \/ MainDestroy

NextShutdown ==
  \/ MainStep
  \/ SigHandler
  \/ SigReturn
  \/ StartStep("main")
  \/ \E t \in Callers : StopStep(t)
  \/ \E t \in Callers : StopJoinInvalid(t)
  \/ \E t \in Callers : StopUseAfterFree(t)
  \/ ThreadStep
  \/ CaptureDeliver

\* the scheduler runs every thread that can take a step; the signal need not
\* arrive and the capture device need not deliver
SpecShutdown ==
  /\ Init
  /\ [][NextShutdown]_vars
  /\ WF_vars(MainStep \/ StartStep("main") \/ StopStep("main")
               \/ StopJoinInvalid("main"))
  /\ WF_vars(SigReturn \/ StopStep("sig") \/ StopJoinInvalid("sig"))
  /\ WF_vars(ThreadStep)

NextConfig ==
  \/ PresetMessage
  \/ ApplyPresetAssign
  \/ ApplyPresetStore
  \/ ApplySetParams
  \/ ChainBegin
  \/ ChainUnit
  \/ ChainEnd

SpecConfig == Init /\ [][NextConfig]_vars

NextFlow ==
  \/ FlowCapture
  \/ FlowProcess
  \/ RenderDrain

SpecFlow == Init /\ [][NextFlow]_vars

NextRender ==
  \/ RenderWriteCall
  \/ RenderDrain

SpecRender == Init /\ [][NextRender]_vars

NextInit ==
  \/ InitializeCapture
  \/ InitializeRender
  \/ InitializeProcessors
  \/ InitializeIPC
  \/ MainInitFailed

SpecInit == Init /\ [][NextInit]_vars

\* one of the two backends is initialized, before its stream starts; the
\* other one is then left as constructed or fed without being initialized
NextBackend ==
  \/ (dnFed = 0 /\ ovFed = 0 /\ ~ov_initialized_ /\ RnInitialize)
  \/ (~ov_initialized_ /\ (ProcessEnter \/ ProcessLoop \/ ProcessReturn))
  \/ (ovFed = 0 /\ dnFed = 0 /\ ~rn_state_ /\ OvInitialize)
  \/ (~rn_state_ /\ OvProcess)

SpecBackend == Init /\ [][NextBackend]_vars

\* the parameters are set before the stream starts
NextLimiter ==
  \/ (limIn = <<>> /\ LimSetCeiling)
  \/ (limIn = <<>> /\ LimSetRelease)
  \/ (limIn = <<>> /\ LimSetLookahead)
  \/ LimProcess

SpecLimiter == Init /\ [][NextLimiter]_vars

\* the rates are set before the stream starts
NextResampler ==
  \/ (rsFed = 0 /\ RsInitialize)
  \/ RsProcess

SpecResampler == Init /\ [][NextResampler]_vars

NextExpander ==
  \/ ExSetParams
  \/ ExProcess

SpecExpander == Init /\ [][NextExpander]_vars

NextCompressor ==
  \/ CmpSetParams
  \/ CmpComputeGain

SpecCompressor == Init /\ [][NextCompressor]_vars

\* the denoiser with its attenuation set before the first block, as
\* Engine::initializeProcessors does
NextAttenuation ==
  \/ (dnFed = 0 /\ RnInitialize)
  \/ (dnFed = 0 /\ RnSetAttenuation)
  \/ (rn_state_ /\ ProcessEnter)
  \/ ProcessLoop
  \/ ProcessReturn

SpecAttenuation == Init /\ [][NextAttenuation]_vars

NextBypass ==
  \/ TrayOnBypass
  \/ ClientSendCommand
  \/ PipeProcessMessage

SpecBypass == Init /\ [][NextBypass]_vars

WaitThreadStep ==
  \/ WaitEnter
  \/ WaitBlock
  \/ WaitNotified
  \/ WaitRunningCheck
  \/ WaitInnerCheck
  \/ WaitProcessBlock

NextWait ==
  \/ WaitCaptureWrite
  \/ WaitCaptureNotify
  \/ WaitThreadStep
  \/ WaitTimeout

\* the scheduler runs the processing thread when it can take a step and the
\* 10 ms of a wait come to an end; the capture device need not deliver
SpecWait ==
  /\ Init
  /\ [][NextWait]_vars
  /\ WF_vars(WaitThreadStep)
  /\ WF_vars(WaitTimeout)

\* PRESET messages and Engine::setAIModel, no audio running
NextPreset ==
  \/ CfgSetAIModel
  \/ PresetMessage
  \/ ApplyPresetAssign
  \/ ApplyPresetStore
  \/ ApplySetParams

SpecPreset == Init /\ [][NextPreset]_vars

NextUnits ==
  \/ UnSetEnabled
  \/ UnLimiterProcess
  \/ UnExpanderProcess
  \/ UnCompressorProcess
  \/ UnEqualizerProcess

SpecUnits == Init /\ [][NextUnits]_vars

NextLimiterRace ==
  \/ LrEnter
  \/ LrPlain
  \/ LrStore
  \/ LrGain
  \/ LrSetBegin
  \/ LrResize
  \/ LrResetPos

SpecLimiterRace == Init /\ [][NextLimiterRace]_vars

(* ---------------------------------------------------------------------- *)
(* Claims about LockFreeRingBuffer                                         *)
(* ---------------------------------------------------------------------- *)

\* slots of the write() in progress: written by its memcpy, published only by
\* the store of writePos_
WriterPending ==
  IF wpc = "copy"
    THEN {CopySlot(wLoc.currentWrite, wLoc.toWrite, k) : k \in 0..(wLoc.toWrite - 1)}
    ELSE {}

\* C1: under every interleaving of the writer's and the reader's steps, the
\* samples returned by read (those of the read in progress included) are a
\* prefix of the samples accepted by write, so no sample is duplicated,
\* skipped or reordered; and the slot the reader copies next is never one of
\* the slots of a write that has not been published yet.
C1_RingFifo ==
  /\ IsPrefix(consumed \o rLoc.data,
              accepted \o (IF wpc = "copy" THEN SubSeq(wLoc.data, 1, wLoc.toWrite)
                           ELSE <<>>))
  /\ IsPrefix(consumed, accepted)
  /\ (rpc = "copy" /\ rLoc.i < rLoc.toRead) =>
        CopySlot(rLoc.currentRead, rLoc.toRead, rLoc.i) \notin WriterPending

\* a read has returned samples after the positions wrapped, while a write is
\* in the middle of its copy
C1_Witness ==
  /\ Len(consumed) >= RingCap + 1
  /\ wpc = "copy" /\ wLoc.i > 0
  /\ rpc = "copy" /\ rLoc.i > 0

(* ---------------------------------------------------------------------- *)
(* Claims about RNNoiseProcessor                                           *)
(* ---------------------------------------------------------------------- *)

\* the k-th frame of the input stream (samples are numbered from 1)
StreamFrame(k) == [j \in 1..FRAME_SIZE |-> (k - 1) * FRAME_SIZE + j]

\* number of input samples process() has moved into frameBuffer_ so far
Buffered == dnFed - (dLoc.frames - dLoc.inputPos)

\* C3: for every sequence of block sizes, the k-th frame handed to
\* processFrame is the FRAME_SIZE consecutive input samples that start at
\* stream offset (k-1)*FRAME_SIZE, every complete frame of the samples
\* buffered so far has been inferred exactly once, and the samples of the
\* frame being filled sit at the start of frameBuffer_.
C3_FramesAligned ==
  /\ \A k \in 1..Len(inferLog) : inferLog[k] = StreamFrame(k)
  /\ Len(inferLog) = Buffered \div FRAME_SIZE
  /\ rn_bufferPos_ = Buffered % FRAME_SIZE
  /\ \A j \in 0..(rn_bufferPos_ - 1) :
        rn_frameBuffer_[j] = Len(inferLog) * FRAME_SIZE + j + 1

\* a frame that began in one call has been completed by a later call, after
\* a block larger than two frames
C3_Witness ==
  /\ Len(inferLog) >= 3
  /\ dpc = "loop"
  /\ dLoc.inputPos > 0 /\ dLoc.inputPos < FRAME_SIZE
  /\ rn_bufferPos_ = 0

\* C4: the buffers handed back to the caller, concatenated, are the processed
\* stream delayed by one fixed latency L: L zeros, then Processed(1),
\* Processed(2), ... each once and in order.
C4_OutputIsDelayedStream ==
  \E L \in 0..rnOutputSize :
    \A i \in 1..Len(outHist) :
      outHist[i] = IF i <= L THEN 0 ELSE Processed(i - L)

(* ---------------------------------------------------------------------- *)
(* Claims about the processing thread                                      *)
(* ---------------------------------------------------------------------- *)

InputAvailable == EngReadAvailable(inputBuffer_.writePos, inputBuffer_.readPos)

\* C2: the processing thread calls inputBuffer_.read only when at least
\* PROCESSING_BLOCK_SIZE samples are stored, and every read returns exactly
\* PROCESSING_BLOCK_SIZE samples, whatever the capture callback does meanwhile.
C2_ReadsWholeBlocks ==
  /\ ppc \in {"read", "readCopy"} => InputAvailable >= PROCESSING_BLOCK_SIZE
  /\ ppc = "readCopy" => pLoc.toRead = PROCESSING_BLOCK_SIZE
  /\ InBlock => Len(blockIn) = PROCESSING_BLOCK_SIZE

\* the thread is inside its second read while the capture callback is between
\* the loads and the store of a write
C2_Witness ==
  /\ ppc = "readCopy"
  /\ pLoc.currentRead = PROCESSING_BLOCK_SIZE
  /\ cpc = "store" /\ capLoc.toWrite > 0

\* everything processAudioBlock and the loop body can invoke, in source order
StageOrder ==
  <<"inputMetering", "rnnoise", "expander", "equalizer", "compressor", "limiter",
    "outputMetering", "meterCallback", "outputBuffer", "render">>

StagePos(s) == CHOOSE i \in 1..Len(StageOrder) : StageOrder[i] = s

IsDspStage(s) == s \in Units \cup {"rnnoise"}

\* whether stage s runs under the settings of the current state
StageRuns(s) ==
  CASE s = "rnnoise" -> aiModel = "rnnoise"
    [] s \in Units -> enabled_[s]
    [] s = "meterCallback" -> meterCallback_
    [] OTHER -> TRUE

\* C5: for a block not bypassed the invocations happen in the fixed order
\* input metering, denoiser, expander, equalizer, compressor, limiter, output
\* metering, (sink), outputBuffer_.write, render_->write, none twice; each
\* unit works on the output of the unit before it; when no setter ran during
\* the block, exactly the enabled stages ran; the buffer handed to render is
\* the output of the last stage.
C5_StageOrder ==
  /\ \A i, j \in 1..Len(calls) : i < j => StagePos(calls[i]) < StagePos(calls[j])
  /\ InBlock =>
       \A k \in 1..PROCESSING_BLOCK_SIZE :
          /\ processingBuffer_[k].id = blockIn[k].id
          /\ processingBuffer_[k].path = SelectSeq(calls, IsDspStage)
  /\ (ppc = "blockDone" /\ ~bypassSeen) =>
       /\ renderArg = processingBuffer_
       /\ ~cfgChanged => calls = SelectSeq(StageOrder, StageRuns)

\* a block has gone through the whole chain, every stage enabled
C5_Witness ==
  /\ ppc = "blockDone"
  /\ ~bypassSeen /\ ~cfgChanged
  /\ calls = StageOrder

\* C6: for a block whose bypass check found bypass_ set (matched rates, no
\* resampler), only input metering, output metering, outputBuffer_.write and
\* render_->write are invoked, and the buffer handed to render is, sample for
\* sample, the block read from inputBuffer_.
C6_BypassIdentity ==
  /\ (InBlock /\ bypassSeen) =>
       /\ processingBuffer_ = blockIn
       /\ \A i \in 1..Len(calls) : ~IsDspStage(calls[i])
  /\ (ppc = "blockDone" /\ bypassSeen) =>
       /\ renderArg = blockIn
       /\ calls = <<"inputMetering", "outputMetering", "outputBuffer", "render">>

\* a second block has been handed to render under bypass while every unit
\* was enabled
C6_Witness ==
  /\ ppc = "blockDone"
  /\ bypassSeen
  /\ inputBuffer_.readPos = 2 * PROCESSING_BLOCK_SIZE
  /\ \A u \in Units : enabled_[u]
  /\ aiModel = "rnnoise"

\* C7: when processAudioBlock has returned for a block and a sink was
\* registered throughout, the sink has been invoked exactly once for the block.
C7_SinkEveryBlock ==
  (ppc = "outputWrite" /\ meterCallback_ /\ ~cfgChanged) =>
     Len(SelectSeq(calls, LAMBDA s : s = "meterCallback")) = 1

(* ---------------------------------------------------------------------- *)
(* Claims about Engine::start and Engine::stop                             *)
(* ---------------------------------------------------------------------- *)

\* nothing of the engine runs: no processing thread exists, processingThread_
\* has been joined, capture and render are stopped
AllStopped ==
  /\ procThreads = 0
  /\ ~ptJoinable
  /\ ~capturing_
  /\ ~rendering_

\* C8: at the step in which any call of Engine::stop() returns, whichever
\* thread made the call, the processing thread has terminated and has been
\* joined and capture and render are stopped.
C8_StopReturnsStopped ==
  [][\A t \in Callers :
       (lpc[t] # "stopRet" /\ lpc'[t] = "stopRet") => AllStopped']_vars

\* C9: with one calling thread, start() and stop() are idempotent: the process
\* is never terminated and at most one processing thread exists; when stop()
\* returns nothing of the engine runs; when start() returns one thread and
\* both adapters run; a start() that found the engine running has created no
\* thread and has not started the adapters again; a stop() that found the
\* engine stopped has changed nothing.
C9_StartStopIdempotent ==
  /\ ~aborted
  /\ procThreads <= 1
  /\ lpc["main"] = "stopRet" => AllStopped /\ ~running_
  /\ lpc["main"] = "startRet" =>
       running_ /\ procThreads = 1 /\ ptJoinable /\ capturing_ /\ rendering_
  /\ (lpc["main"] = "startRet" /\ snap.running) =>
       /\ threadsCreated = snap.threadsCreated
       /\ adapterStarts = snap.adapterStarts
  /\ (lpc["main"] = "stopRet" /\ ~snap.running) => Snapshot = snap

\* start() has returned early on a running engine whose thread is the second
\* one, created after an earlier stop()
C9_Witness ==
  /\ lpc["main"] = "startRet"
  /\ snap.running
  /\ threadsCreated = 2
  /\ procThreads = 1

\* C10: a call of stop() that has set running_ to false eventually returns.
C10_StopReturns ==
  \A t \in Callers : (lpc[t] = "stopNotify") ~> (lpc[t] = "stopRet")

\* with one calling thread, a call of stop() that has set running_ to false
\* eventually returns
SingleCallerStopReturns ==
  (lpc["main"] = "stopNotify") ~> (lpc["main"] = "stopRet")

(* ---------------------------------------------------------------------- *)
(* Claims about presets and DSP parameters                                 *)
(* ---------------------------------------------------------------------- *)

\* C11: while a block is in the DSP chain no unit's parameters change, and
\* the parameters the units have used for the block all come from one stored
\* config.
C11_BlockSeesOneSnapshot ==
  /\ InChain => ~chainChanged
  /\ \E c \in snapshots :
       \A i \in 1..Len(chainUsed) :
          chainUsed[i].params = UnitSet(chainUsed[i].unit, c)

\* C12: from reading a block out of inputBuffer_ until it has been handed to
\* render and metered, the processing thread acquires no mutex and allocates
\* no memory.
C12_NoLockNoAllocation == blockOps = {}

\* The preset table of the specification, in tenths: expander (threshold,
\* ratio, attack, release, hysteresis), compressor (threshold, ratio, knee,
\* attack, release, makeup), limiter (ceiling, release, lookahead), EQ
\* high-pass (freq, q), low shelf (freq, gain), peak (freq, gain, q), high
\* shelf (freq, gain).
TableRow(ex, co, li, hp, ls, pk, hs) ==
  [expander |-> [threshold |-> ex[1], ratio |-> ex[2], attack |-> ex[3],
                 release |-> ex[4], hysteresis |-> ex[5]],
   compressor |-> [threshold |-> co[1], ratio |-> co[2], knee |-> co[3],
                   attack |-> co[4], release |-> co[5], makeupGain |-> co[6]],
   limiter |-> [ceiling |-> li[1], release |-> li[2], lookahead |-> li[3]],
   highPass |-> [freq |-> hp[1], q |-> hp[2]],
   lowShelf |-> [freq |-> ls[1], gain |-> ls[2]],
   presence |-> [freq |-> pk[1], gain |-> pk[2], q |-> pk[3]],
   highShelf |-> [freq |-> hs[1], gain |-> hs[2]]]

PresetTable(name) ==
  CASE name = "podcast" ->
         TableRow(<<-450, 25, 50, 1000, 30>>, <<-160, 35, 60, 100, 1000, 60>>,
                  <<-10, 500, 50>>, <<800, 7>>, <<2000, 10>>,
                  <<30000, 30, 10>>, <<80000, 20>>)
    [] name = "meeting" ->
         TableRow(<<-500, 20, 100, 1500, 40>>, <<-200, 25, 80, 150, 1500, 40>>,
                  <<-30, 1000, 30>>, <<1000, 7>>, <<2000, 0>>,
                  <<30000, 15, 10>>, <<100000, 10>>)
    [] name = "streaming" ->
         TableRow(<<-400, 30, 30, 800, 20>>, <<-140, 45, 40, 50, 800, 80>>,
                  <<-5, 300, 50>>, <<800, 8>>, <<1500, 20>>,
                  <<40000, 40, 12>>, <<120000, 30>>)

\* every value of the row is the value held
HoldsRow(held, row) == \A f \in DOMAIN row : held[f] = row[f]

\* the stored config, or the DSP units, hold the row
HoldsPreset(ex, co, li, eq, row) ==
  /\ HoldsRow(ex, row.expander)
  /\ HoldsRow(co, row.compressor)
  /\ HoldsRow(li, row.limiter)
  /\ HoldsRow(eq.highPass, row.highPass)
  /\ HoldsRow(eq.lowShelf, row.lowShelf)
  /\ HoldsRow(eq.presence, row.presence)
  /\ HoldsRow(eq.highShelf, row.highShelf)

\* the pipe server's thread is outside applyPreset and the last name it
\* applied is one of the three presets
PresetApplied ==
  /\ apc = "idle"
  /\ presetHist # <<>>
  /\ presetHist[Len(presetHist)] \in PresetNames

\* C20: when applyPreset(name) has returned, name one of podcast, meeting,
\* streaming, the stored config and the DSP units hold the values of that
\* preset's row of the table, whatever presets were applied before.
C20_LastPresetHeld ==
  PresetApplied =>
    LET row == PresetTable(presetHist[Len(presetHist)])
    IN  /\ HoldsPreset(config_.expander, config_.compressor, config_.limiter,
                       config_.equalizer, row)
        /\ config_.activePreset = presetHist[Len(presetHist)]
        /\ HoldsPreset(unitParams["expander"], unitParams["compressor"],
                       unitParams["limiter"], unitParams["equalizer"], row)

\* podcast then streaming: the compressor threshold is -14 dB
C20_Witness ==
  /\ apc = "idle"
  /\ presetHist = <<"podcast", "streaming">>
  /\ config_.compressor.threshold = -140
  /\ unitParams["compressor"].threshold = -140

(* ---------------------------------------------------------------------- *)
(* Claims about the sample flow and the render ring                        *)
(* ---------------------------------------------------------------------- *)

\* C13: after a capture callback every sample of the callback is stored in
\* inputBuffer_, so the ring holds the most recent samples captured, the
\* oldest unread ones having been discarded when space was short.
C13_NewestStored ==
  /\ lastCapture.stored = Len(lastCapture.data)
  /\ LET stored == RingStored(inputRing)
     IN  stored = [k \in 1..Len(stored) |-> offered - Len(stored) + k]

\* C14: every capture callback that found too little space in inputBuffer_
\* and every render period filled up with silence has incremented
\* Status.bufferUnderruns.
C14_DropsCounted == bufferUnderruns >= overflows + silences

\* C15: outputBuffer_.write has accepted the whole block for every block the
\* processing thread has produced.
C15_OutputAccepted ==
  blocksOut > 0 => lastOutWrite = PROCESSING_BLOCK_SIZE

InitializeFailed == initPc = "returned" /\ initResult = "false"

\* C17: when Engine::initialize() has returned false, no capture or render
\* adapter is initialized or holds a device, no resampler, denoiser state or
\* DSP unit is left, and no thread has been started.
C17_FailedInitializeReleasesAll ==
  InitializeFailed =>
    /\ capture_.held = {}
    /\ ~capture_.callback
    /\ render_.held = {}
    /\ ~render_.initialized
    /\ ~inputResampler_
    /\ ~outputResampler_
    /\ ~rn_state_
    /\ ~dspCreated
    /\ pipeServer_ # "running"

\* initializeProcessors has run and rnnoise_create returned null
DenoiserInitFailed ==
  /\ initPc = "returned"
  /\ render_.initialized
  /\ ~rn_state_

\* C18: when the denoiser backend fails to initialize (rnnoise_create returns
\* null), Engine::initialize() still returns true.
C18_DenoiserFailureNotFatal == DenoiserInitFailed => initResult = "true"

\* C19: a process call on an RNNoiseProcessor whose state is null, or on an
\* OpenVINOProcessor whose initialized_ is false, returns with the caller's
\* buffer as it was handed in and with the processor's frame buffer, output
\* buffer and positions unchanged, whatever the number of frames.
C19_UninitializedPassThrough ==
  [][/\ (~rn_state_ /\ dnFed' # dnFed) =>
          /\ outHist' = outHist \o [k \in 1..(dnFed' - dnFed) |-> dnFed + k]
          /\ dpc' = "idle"
          /\ UNCHANGED <<rn_state_, rn_frameBuffer_, rn_bufferPos_,
                         rn_outputBuffer_, rn_outputPos_, inferLog>>
     /\ (~ov_initialized_ /\ ovFed' # ovFed) =>
          /\ ovOut' = [k \in 1..(ovFed' - ovFed) |-> ovFed + k]
          /\ UNCHANGED <<ov_initialized_, ov_frameBuffer_, ov_bufferPos_,
                         ovWild>>]_vars

\* both processors have been fed blocks of every size, the OpenVINO one more
\* than a frame, while uninitialized
C19_Witness ==
  /\ ~rn_state_
  /\ dnFed = MaxInput
  /\ ~ov_initialized_
  /\ ovFed = MaxOvInput
  /\ Len(ovOut) = MaxOvBlock

\* initializeRender has run and the engine has not been destroyed since
RenderAttempted == render_.exists

\* the positions, in enumeration order, of the endpoints whose name contains
\* a virtual-audio substring
VirtualEndpoints ==
  {i \in 1..Len(discovery.devices) : discovery.devices[i] # {}}

\* C21: with an empty output device id the render adapter is initialized
\* with the first enumerated endpoint whose name contains a virtual-audio
\* substring; when there is none, initialize returns false and the render
\* adapter is not initialized; a non-empty id is used as given.
C21_FirstVirtualEndpoint ==
  RenderAttempted =>
    /\ discovery.configured # "" =>
          discovery.outputDevice = discovery.configured
    /\ (discovery.configured = "" /\ VirtualEndpoints # {}) =>
          \E i \in VirtualEndpoints :
            /\ \A j \in VirtualEndpoints : i <= j
            /\ discovery.outputDevice = EndpointIds[i]
    /\ (discovery.configured = "" /\ VirtualEndpoints = {}) =>
          /\ initResult = "false"
          /\ render_.held = {}
          /\ ~render_.initialized
    /\ render_.device \in {"", discovery.outputDevice}
    /\ render_.initialized => render_.device = discovery.outputDevice

\* the first endpoint is no virtual device, the second carries the custom
\* driver's name, and the render adapter was initialized with the second
C21_Witness ==
  /\ discovery.configured = ""
  /\ Len(discovery.devices) = 2
  /\ discovery.devices[1] = {}
  /\ discovery.devices[2] = {"Virtual Speaker"}
  /\ render_.initialized
  /\ render_.device = EndpointIds[2]

(* ---------------------------------------------------------------------- *)
(* Claims about the DSP units                                              *)
(* ---------------------------------------------------------------------- *)

\* Limiter::getLatency(), limiter.h line 58
LimLatency == lim_lookaheadSamples_

\* C22: every sample the limiter has output after the first N_la samples of
\* the stream has a magnitude of at most the ceiling, for every input and
\* every valid ceiling, release and lookahead.
C22_CeilingHeld ==
  \A i \in 1..Len(limOut) :
    i > LimLatency => Abs(limOut[i]) <= lim_ceiling_

\* C23: with a lookahead of N_la > 0 samples, the output at stream index i
\* is the input of index i - N_la times the smoothed gain, for i >= N_la,
\* N_la being the value getLatency() reports.
C23_LatencyIsLookahead ==
  LimLatency > 0 =>
    \A i \in 1..Len(limOut) :
      i > LimLatency =>
        limOut[i] = FixedMul(limIn[i - LimLatency], limGains[i])

\* C25: Expander::getGainReduction() is never negative: it is 0 dB while
\* the expander leaves the level alone and a positive number of dB while it
\* reduces the gain.
C25_GainReductionNonNegative ==
  /\ ex_gainReductionDb_ >= 0
  /\ (exFed > 0 /\ exGain < FixedOne) => ex_gainReductionDb_ > 0

\* C35: with no lookahead the limiter adds no delay and never exceeds the
\* ceiling: every output sample is the input sample of the same index times
\* a gain in (0, 1], and its magnitude is at most the ceiling, from the
\* first sample on and whatever gain earlier blocks left behind.
C35_BrickwallWithoutLookahead ==
  lim_lookaheadSamples_ = 0 =>
    /\ Len(limOut) = Len(limIn)
    /\ \A i \in 1..Len(limOut) :
         /\ limOut[i] = FixedMul(limIn[i], limGains[i])
         /\ limGains[i] > 0
         /\ limGains[i] <= FixedOne
         /\ Abs(limOut[i]) <= lim_ceiling_

\* no lookahead, two process calls at least, and a sample over the ceiling
\* arrives while the gain left by an earlier sample is still below 1
C35_Witness ==
  /\ lim_lookaheadSamples_ = 0
  /\ Len(limIn) > MaxLimBlock
  /\ \E i \in 2..Len(limIn) :
       /\ Abs(limIn[i]) > lim_ceiling_
       /\ limGains[i - 1] < FixedOne
       /\ limGains[i] < limGains[i - 1]

(* ---------------------------------------------------------------------- *)
(* Claims about OpenVINOProcessor::process                                 *)
(* ---------------------------------------------------------------------- *)

\* C36: process never copies a processed frame to an index before the start
\* of the caller's buffer, whatever the sequence of block sizes.
C36_WritesInsideBuffer == ~ovWild

(* ---------------------------------------------------------------------- *)
(* Claims about the resampler                                              *)
(* ---------------------------------------------------------------------- *)

\* C24: with srcRate # dstRate, the k-th output frame of the whole run
\* (k from 0) is the linear interpolation of the concatenated input at
\* position k * srcRate / dstRate, whatever the blocks were, and the number
\* of output frames differs from fed * dstRate / srcRate by at most one.
C24_PositionCarried ==
  (rs_srcRate_ # rs_dstRate_) =>
    /\ \A k \in 1..Len(rsOut) :
          rsOut[k] = StreamInterpolated((k - 1) * rs_srcRate_, rs_dstRate_)
    /\ Len(rsOut) * rs_srcRate_ >= (rsFed - 1) * rs_dstRate_ - rs_srcRate_
    /\ Len(rsOut) * rs_srcRate_ <= rsFed * rs_dstRate_ + rs_srcRate_

(* ---------------------------------------------------------------------- *)
(* Claims about the ring buffer's counts                                   *)
(* ---------------------------------------------------------------------- *)

\* no write and no read is in progress
Quiescent == wpc = "idle" /\ rpc = "idle"

\* C29: whenever no write and no read is in progress, availableRead() is
\* the number of samples write has accepted minus the number read has
\* returned, also after the positions have wrapped.
C29_AvailableReadIsBacklog ==
  Quiescent =>
    AvailableRead(writePos_, readPos_) = Len(accepted) - Len(consumed)

\* a quiescent state with samples to read, the write position wrapped past
\* the end of the buffer and behind the read position
C29_Witness ==
  /\ Quiescent
  /\ Len(accepted) > bufferSize
  /\ writePos_ < readPos_
  /\ AvailableRead(writePos_, readPos_) > 0

\* C30: in every state availableRead() + availableWrite() on the same pair
\* of positions is capacity(), both positions lie in 0..capacity, an empty
\* buffer has availableWrite() = capacity() and a full one
\* availableRead() = capacity().
C30_CountsSumToCapacity ==
  /\ writePos_ \in 0..capacity_
  /\ readPos_ \in 0..capacity_
  /\ AvailableRead(writePos_, readPos_) + AvailableWrite(writePos_, readPos_)
       = capacity_
  /\ writePos_ = readPos_ => AvailableWrite(writePos_, readPos_) = capacity_
  /\ (writePos_ + 1) % bufferSize = readPos_ =>
       AvailableRead(writePos_, readPos_) = capacity_

\* a full buffer whose write position has wrapped behind the read position
C30_Witness ==
  /\ (writePos_ + 1) % bufferSize = readPos_
  /\ writePos_ < readPos_
  /\ Len(consumed) > 0

\* slots that hold samples read has not consumed yet
StoredSlots ==
  {(readPos_ + k) % bufferSize : k \in 0..(AvailableRead(writePos_, readPos_) - 1)}

\* the step in which write compares count with the free space (lines 18-31):
\* it goes on with min(count, free space) samples, or returns 0 at once and
\* changes nothing when that is 0; more than capacity samples offered to an
\* empty buffer are cut to capacity
WriteTakesMin ==
  (wpc = "loadRead" /\ wpc' # "loadRead") =>
    LET n == Min(wLoc.count, AvailableWrite(writePos_, readPos_))
    IN  /\ n = 0 => (wpc' = "idle" /\ UNCHANGED <<buffer_, writePos_, accepted>>)
        /\ n > 0 => (wpc' = "copy" /\ wLoc'.toWrite = n)
        /\ (wLoc.count > capacity_ /\ writePos_ = readPos_) =>
              wLoc'.toWrite = capacity_

\* the step in which write returns toWrite (lines 44-47): exactly toWrite
\* samples were copied, in order, and they are the ones accepted
WriteCopiesExactly ==
  (wpc = "copy" /\ wpc' = "idle") =>
    /\ accepted' = accepted \o SubSeq(wLoc.data, 1, wLoc.toWrite)
    /\ AvailableRead(writePos_', readPos_) =
         AvailableRead(writePos_, readPos_) + wLoc.toWrite
    /\ \A k \in 0..(wLoc.toWrite - 1) :
         buffer_[CopySlot(wLoc.currentWrite, wLoc.toWrite, k)] = wLoc.data[k + 1]

\* the same two steps of read (lines 52-65 and 78-81)
ReadTakesMin ==
  (rpc = "loadWrite" /\ rpc' # "loadWrite") =>
    LET m == Min(rLoc.count, AvailableRead(writePos_, readPos_))
    IN  /\ m = 0 => (rpc' = "idle" /\ UNCHANGED <<readPos_, consumed>>)
        /\ m > 0 => (rpc' = "copy" /\ rLoc'.toRead = m)

ReadReturnsExactly ==
  (rpc = "copy" /\ rpc' = "idle") =>
    /\ Len(consumed') = Len(consumed) + rLoc.toRead
    /\ AvailableWrite(writePos_, readPos_') =
         AvailableWrite(writePos_, readPos_) + rLoc.toRead

\* C33: write(src, n) takes min(n, free space at the call) samples, copies
\* exactly that many, never writes a slot whose sample read has not consumed
\* and returns 0 at once when the buffer is full; read(dst, m) takes
\* min(m, stored samples) and returns 0 when the buffer is empty; a write
\* of more than capacity samples into an empty buffer stores exactly
\* capacity samples.
C33_WriteReadTakeMin ==
  /\ [](WriterPending \cap StoredSlots = {})
  /\ [][WriteTakesMin /\ WriteCopiesExactly /\ ReadTakesMin
         /\ ReadReturnsExactly]_vars

\* a write of more than capacity samples into a buffer that reads have
\* emptied has copied capacity samples, across the end of the buffer
C33_Witness ==
  /\ wpc = "copy"
  /\ wLoc.count > capacity_
  /\ wLoc.toWrite = capacity_
  /\ wLoc.i = wLoc.toWrite
  /\ wLoc.currentWrite = readPos_
  /\ wLoc.currentWrite > 1
  /\ Len(consumed) > 0

(* ---------------------------------------------------------------------- *)
(* Claims about the processing thread's wait                               *)
(* ---------------------------------------------------------------------- *)

\* C34: while the engine runs, whenever the input ring holds a block the
\* processing thread eventually reads one, also when the callback's
\* notify_one came before the thread blocked.
C34_BlockEventuallyProcessed ==
  \A b \in 0..(MaxWaitCallbacks * MaxCaptureFrames) :
    (WaitPredicate(waitStored) /\ waitBlocks = b) ~> (waitBlocks > b)

\* the thread is blocked with a block stored and no wake-up pending: the
\* callback wrote and notified after the predicate was evaluated and before
\* the thread blocked
C34_Witness ==
  /\ waitPc = "blocked"
  /\ ~waitWoken
  /\ waitCapPc = "idle"
  /\ WaitPredicate(waitStored)

(* ---------------------------------------------------------------------- *)
(* Claims about the PRESET command's frame                                 *)
(* ---------------------------------------------------------------------- *)

\* the parts of the stored config a preset does not name, as far as the
\* model holds them
OutsidePreset(config) == <<config.aiModel, config.equalizer.enabled>>

\* a step of the handling of a PRESET message, from processMessage to the
\* end of applyPreset
PresetHandlingStep == apc # "idle" \/ apc' # "idle"

\* C37: handling a PRESET command leaves the parts of the stored config
\* outside the preset (aiModel, equalizer.enabled) as they were.
C37_PresetFrame ==
  [][PresetHandlingStep => OutsidePreset(config_') = OutsidePreset(config_)]_vars

(* ---------------------------------------------------------------------- *)
(* Claims about setEnabled                                                 *)
(* ---------------------------------------------------------------------- *)

\* C31: a process call made while the unit is disabled leaves the buffer
\* and the unit's internal state as they were, for each of the four units
\* and every block length.
C31_DisabledIsNoOp ==
  (unCalls > 0 /\ ~unBefore.enabled) =>
    /\ unBuffer = unBefore.buffer
    /\ UnitState(unBefore.unit) = unBefore.state

\* the limiter, left with a reduced gain by an enabled call, was disabled
\* and then handed a block with a sample over the ceiling
C31_Witness ==
  /\ unCalls > 1
  /\ unBefore.unit = "limiter"
  /\ ~unBefore.enabled
  /\ lim_smoothedGain_ < FixedOne
  /\ \E k \in 1..Len(unBefore.buffer) : unBefore.buffer[k] > lim_ceiling_

(* ---------------------------------------------------------------------- *)
(* Claims about the limiter under applyPreset                              *)
(* ---------------------------------------------------------------------- *)

\* C32: while Limiter::process is inside a block the ring keeps the size it
\* had when the block began, and every access lookaheadBuffer_[bufferPos_]
\* is inside the ring, also when a preset is applied from the pipe server
\* thread during the block.
C32_RingConstantInBlock ==
  /\ lrPc # "wild"
  /\ lrPc \in {"store", "gain"} =>
       LrSize(lim_lookaheadBuffer_) = lrStartSize

(* ---------------------------------------------------------------------- *)
(* Claims about the compressor                                             *)
(* ---------------------------------------------------------------------- *)

\* ratios of [1, 20] and thresholds of [-40, 0] dB the curve is compared at
CmpRatios == 2..40
CmpThresholds == -40..0

\* y_dB = x_dB + g_dB as a fraction over the denominator of the gain
OutputDb(inputDb, gain) ==
  [num |-> inputDb * gain.den + gain.num, den |-> gain.den]

\* C26: at a fixed input level above the threshold the output level
\* x_dB + computeGainDb(x_dB) does not increase when the ratio increases and
\* does not decrease when the threshold increases, for every knee, inside the
\* knee region and at its edges.
C26_CurveMonotone ==
  LET e == cmpEval
      y == OutputDb(e.inputDb, e.gain)
  IN  (e.called /\ e.inputDb > e.thresholdDb) =>
        /\ e.gain.den > 0
        /\ \A r \in CmpRatios :
             LET yr == OutputDb(e.inputDb,
                                ComputeGainDb(e.inputDb, e.thresholdDb, r,
                                              e.kneeDb))
             IN  /\ r >= e.ratio => FracLe(yr, y)
                 /\ r <= e.ratio => FracLe(y, yr)
        /\ \A t \in CmpThresholds :
             LET yt == OutputDb(e.inputDb,
                                ComputeGainDb(e.inputDb, t, e.ratio, e.kneeDb))
             IN  t < e.inputDb =>
                   /\ t >= e.thresholdDb => FracLe(y, yt)
                   /\ t <= e.thresholdDb => FracLe(yt, y)

\* a level above the threshold and inside the knee was evaluated at a ratio
\* above 1 and the gain is a reduction
C26_Witness ==
  /\ cmpEval.called
  /\ cmpEval.kneeDb > 0
  /\ cmpEval.ratio > 2
  /\ cmpEval.inputDb > cmpEval.thresholdDb
  /\ 2 * cmpEval.inputDb < 2 * cmpEval.thresholdDb + cmpEval.kneeDb
  /\ cmpEval.gain.num < 0

(* ---------------------------------------------------------------------- *)
(* Claims about the denoiser's attenuation                                 *)
(* ---------------------------------------------------------------------- *)

\* a frame has just been processed: frameBuffer_ holds the output frame and
\* the last entry of inferLog the dry frame
FrameJustProcessed == Len(inferLog) > 0 /\ rn_bufferPos_ = 0

\* C27: the output frame is the mix of the processed and the dry frame that
\* the attenuation selects: the dry frame at 0 dB, the processed frame at
\* -60 dB.
C27_AttenuationMixes ==
  FrameJustProcessed =>
    LET dry == inferLog[Len(inferLog)]
    IN  /\ rn_attenuation_ = DbToLinear(0) =>
             \A j \in 0..(FRAME_SIZE - 1) : rn_frameBuffer_[j] = dry[j + 1]
        /\ rn_attenuation_ = DbToLinear(-600) =>
             \A j \in 0..(FRAME_SIZE - 1) :
               rn_frameBuffer_[j] = Processed(dry[j + 1])

(* ---------------------------------------------------------------------- *)
(* Claims about the BYPASS command                                         *)
(* ---------------------------------------------------------------------- *)

\* C28: once the server has handled every command the tray sent, the
\* engine's bypass flag equals the tray app's bypass state, i.e. the flag a
\* BYPASS 1 or BYPASS 0 command carries is the flag the engine holds.
C28_BypassAgrees ==
  (trayToggles > 0 /\ pipeMessages = <<>>) => bypass_ = tray_bypass_

====
